---- MODULE Spec2Model ----
(***************************************************************************)
(* A model of goread, a terminal EPUB reader.                              *)
(*                                                                         *)
(* Part I  (specification Spec): opening a book -- parseContainer,         *)
(*         parseRootFile, initialize/generateTOC of pkg/epub/epub.go and   *)
(*         the DList of pkg/utils.                                         *)
(* Part II (specification CacheSpec): the reader's foreground key handlers *)
(*         and the background preload goroutines of pkg/reader that share  *)
(*         the HTML/parsed/formatted caches and the archive.               *)
(* Part III (specification AnchorSpec): ExtractBetweenAnchors of           *)
(*         pkg/parser/anchor.go applied to bounded documents.              *)
(* Part IV (specification ParseSpec): the walk of HTMLParser.Parse over a  *)
(*         document and the formatting flags of pkg/parser/tag.go.         *)
(* Part V  (specification VirtualSpec): processVirtualChapters of          *)
(*         pkg/epub/epub.go.                                               *)
(* Part VI (specification CodeSpec): highlightUniversal of                 *)
(*         pkg/parser/code.go.                                             *)
(* Part VII (specification FormatSpec): HTMLParser.FormatLines of          *)
(*         pkg/parser/html_parser.go.                                      *)
(* Part VIII (specification PathSpec): ResolvePath of pkg/utils/path.go.   *)
(* Part IX (specification KeySpec): the keys of the reading view of        *)
(*         pkg/reader: chapter navigation, search, scrolling and quit.     *)
(* Part X  (specification ListSpec): Add on a DList of pkg/utils.          *)
(* Part XI (specification WidthSpec): the width keys of the reading view   *)
(*         while the preload goroutines run.                               *)
(* Part XII (specification TourSpec): the next-chapter key pressed again   *)
(*         and again, with weak fairness of the steps.                     *)
(*                                                                         *)
(* Strings are modelled as sequences of tokens: a path such as             *)
(* "OEBPS/toc.ncx" is <<"OEBPS", "/", "toc", ".ncx">>, a reference with a  *)
(* fragment "ch1.xhtml#s1" is <<"ch1", ".xhtml", "#", "s1">>, the empty    *)
(* string is <<>>.  A space separated attribute value such as              *)
(* "scripted nav" is <<"scripted", " ", "nav">>.                           *)
(***************************************************************************)
EXTENDS Integers, Sequences, FiniteSets, TLC

VARIABLES
    container,   \* META-INF/container.xml as decoded: the rootfile full-paths
    pkg,         \* the package document (OPF) stored in the archive
    tocFile,     \* the archive entry found at e.TOCPath when generateTOC opens it
    e,           \* the Epub struct under construction
    uuidCtr,     \* number of uuid.New() calls made so far
    pc,          \* position of NewEpub
    r,           \* the Reader struct (caches, CurrentChapter, UI width, status bar)
    book,        \* the opened book the reader works on (Contents, VirtualContents)
    fg,          \* the foreground (UI event loop) goroutine
    tasks,       \* the background goroutines started so far
    reading,     \* goroutines that are inside Epub.GetChapterContent
    crashed,     \* the Go runtime aborted the process (concurrent map access)
    call,        \* the function call under evaluation and its arguments
    ret          \* what the call returned (Part IX: the state saved on quit)

loadVars == <<container, pkg, tocFile, e, uuidCtr, pc>>
readerVars == <<r, book, fg, tasks, reading, crashed>>
fnVars == <<call, ret>>
vars == <<container, pkg, tocFile, e, uuidCtr, pc, r, book, fg, tasks, reading, crashed, call, ret>>

(***************************************************************************)
(* Bounds                                                                  *)
(***************************************************************************)
MaxNavPoints == 3    \* navPoint / navLink elements in a TOC document
MaxTocItems == 2     \* TOC-related items in the manifest
MaxSpine == 2        \* itemref elements in the spine

(***************************************************************************)
(* String helpers                                                          *)
(***************************************************************************)
Range(s) == {s[i] : i \in 1..Len(s)}

\* strings.HasPrefix
HasPrefix(s, p) == Len(s) >= Len(p) /\ SubSeq(s, 1, Len(p)) = p

\* strings.HasSuffix
HasSuffix(s, p) == Len(s) >= Len(p) /\ SubSeq(s, Len(s) - Len(p) + 1, Len(s)) = p

\* strings.ToLower, token by token
ToLowerTok(t) == IF t = ".NCX" THEN ".ncx" ELSE IF t = "TOC" THEN "toc" ELSE t

ToLower(s) == [i \in 1..Len(s) |-> ToLowerTok(s[i])]

\* path/filepath.Dir for the clean paths of the model: everything before
\* the last separator, "." when there is none.
LastIndex(s, t) == IF t \in Range(s) THEN CHOOSE i \in 1..Len(s) : s[i] = t /\ \A j \in (i+1)..Len(s) : s[j] # t ELSE 0

Dir(path) == IF LastIndex(path, "/") = 0 THEN <<".">> ELSE IF LastIndex(path, "/") = 1 THEN <<"/">> ELSE SubSeq(path, 1, LastIndex(path, "/") - 1)

\* splitPathAndFragment: strings.SplitN(path, "#", 2)
Index(s, t) == IF t \in Range(s) THEN CHOOSE i \in 1..Len(s) : s[i] = t /\ \A j \in 1..(i-1) : s[j] # t ELSE 0

splitPathAndFragment(path) == IF Index(path, "#") = 0 THEN <<path, <<>>>> ELSE <<SubSeq(path, 1, Index(path, "#") - 1), SubSeq(path, Index(path, "#") + 1, Len(path))>>

(***************************************************************************)
(* Inputs: archive contents                                                *)
(***************************************************************************)
NCXMediaType == <<"application/x-dtbncx+xml">>
XHTMLMediaType == <<"application/xhtml+xml">>

NoEntry == [kind |-> "noentry"]      \* zip: no such entry
Malformed == [kind |-> "malformed"]  \* entry exists, XML does not decode

RootFilePaths == {<<"content", ".opf">>, <<"OEBPS", "/", "content", ".opf">>}

\* container.xml: zero, one or two rootfile elements
Containers == {<<>>} \cup {<<p>> : p \in RootFilePaths} \cup {pq \in RootFilePaths \X RootFilePaths : pq[1] # pq[2]}

NcxItem == [ID |-> "ncx", Href |-> <<"toc", ".ncx">>, MediaType |-> NCXMediaType, Properties |-> <<>>]
NavItem == [ID |-> "nav", Href |-> <<"nav", ".xhtml">>, MediaType |-> XHTMLMediaType, Properties |-> <<"nav">>]
NavScriptedItem == [ID |-> "nav2", Href |-> <<"nav2", ".xhtml">>, MediaType |-> XHTMLMediaType, Properties |-> <<"scripted", " ", "nav">>]
Ch1Item == [ID |-> "c1", Href |-> <<"ch1", ".xhtml">>, MediaType |-> XHTMLMediaType, Properties |-> <<>>]
Ch2Item == [ID |-> "c2", Href |-> <<"ch2", ".xhtml">>, MediaType |-> XHTMLMediaType, Properties |-> <<>>]

TocItemPool == {NcxItem, NavItem, NavScriptedItem}

\* sequences without repetition over S of length at most n
RECURSIVE InjSeqs(_, _)
InjSeqs(S, n) == IF n = 0 THEN {<<>>} ELSE {<<>>} \cup UNION {{<<x>> \o s : s \in InjSeqs(S \ {x}, n - 1)} : x \in S}

\* all sequences over S of length at most n
RECURSIVE SeqsUpTo(_, _)
SeqsUpTo(S, n) == IF n = 0 THEN {<<>>} ELSE {<<>>} \cup {<<x>> \o s : x \in S, s \in SeqsUpTo(S, n - 1)}

\* manifests: the TOC-related items in any order, then the content documents
Manifests == {t \o <<Ch1Item, Ch2Item>> : t \in InjSeqs(TocItemPool, MaxTocItems)}

Spines == SeqsUpTo({"c1", "c2", "cx"}, MaxSpine)

Packages == [Version : {<<"2.0">>, <<"3.0">>}, Manifest : Manifests, Spine : Spines]

\* content/@src and a/@href values of a TOC document
Srcs == {<<"ch1", ".xhtml">>, <<"ch2", ".xhtml", "#", "s1">>}

\* ordered forests of navPoint elements with exactly n elements
RECURSIVE NavForests(_)
NavForests(n) == IF n = 0 THEN {<<>>} ELSE UNION {{<<[Text |-> <<"t">>, Src |-> s, NavPoints |-> kids]>> \o rest : s \in Srcs, kids \in NavForests(k), rest \in NavForests(n - 1 - k)} : k \in 0..(n - 1)}

NCXDocs == {[kind |-> "ncx", NavPoints |-> f] : f \in UNION {NavForests(n) : n \in 0..MaxNavPoints}}

NavDocs == {[kind |-> "html", NavLinks |-> l] : l \in SeqsUpTo({[Href |-> s, Text |-> <<"t">>] : s \in Srcs}, MaxNavPoints)}

TocFiles == {NoEntry, Malformed} \cup NCXDocs \cup NavDocs

(***************************************************************************)
(* pkg/utils: DList.  Pointers to DItem cells are indices into Items,      *)
(* 0 is nil.                                                               *)
(***************************************************************************)
NewDList == [Head |-> 0, Slice |-> <<>>, Items |-> <<>>]

\* DList.Add: returns the list after the call and the returned pointer
Add(l, value, prev) ==
    IF prev = 0
    THEN LET items == Append(l.Items, [Value |-> value, Prev |-> 0, Next |-> 0])
             head == Len(items)
         IN  [list |-> [Head |-> head, Slice |-> Append(l.Slice, value), Items |-> items],
              ret |-> items[head].Next]
    ELSE LET n == Len(l.Items) + 1
             items == Append([l.Items EXCEPT ![prev].Next = n], [Value |-> value, Prev |-> prev, Next |-> 0])
         IN  [list |-> [l EXCEPT !.Items = items], ret |-> items[prev].Next]

\* DList.Len
DListLen(l) == Len(l.Slice)

(***************************************************************************)
(* pkg/epub: building the table of contents                                *)
(***************************************************************************)
\* uuid.New().String(): the n-th identifier handed out
NewUUID(n) == <<"uuid", n>>

\* mutant: the level argument is dropped, every node is built at level 0
NavPointValue_Level0(navPoint, id, level, parentID) ==
    [ID |-> id,
     Title |-> navPoint.Text,
     Path |-> splitPathAndFragment(navPoint.Src)[1],
     Fragment |-> splitPathAndFragment(navPoint.Src)[2],
     Level |-> 0,
     IsDir |-> Len(navPoint.NavPoints) > 0,
     ParentID |-> parentID]

\* the TOCValue literal of processNestedNavPoints
NavPointValue(navPoint, id, level, parentID) ==
    [ID |-> id,
     Title |-> navPoint.Text,
     Path |-> splitPathAndFragment(navPoint.Src)[1],
     Fragment |-> splitPathAndFragment(navPoint.Src)[2],
     Level |-> level,
     IsDir |-> Len(navPoint.NavPoints) > 0,
     ParentID |-> parentID]

\* the TOCValue literal of the navigation-document branch of generateTOC
NavLinkValue(link) ==
    [ID |-> <<>>,
     Title |-> link.Text,
     Path |-> splitPathAndFragment(link.Href)[1],
     Fragment |-> splitPathAndFragment(link.Href)[2],
     Level |-> 0,
     IsDir |-> FALSE,
     ParentID |-> <<>>]

\* st = [list, uuid, ret]: the DList, the uuid counter and the last returned node
RECURSIVE processNestedNavPoints(_, _, _, _, _)
RECURSIVE processChildren(_, _, _, _, _)
processNestedNavPoints(navPoint, st, prev, level, parentID) ==
    LET newItem == NavPointValue(navPoint, NewUUID(st.uuid + 1), level, parentID)
        added == Add(st.list, newItem, prev)
        st1 == [list |-> added.list, uuid |-> st.uuid + 1, ret |-> added.ret]
    IN  processChildren(navPoint.NavPoints, 1, st1, level + 1, newItem.ID)

\* for i := range navPoint.NavPoints { newNode = processNestedNavPoints(..., newNode, level+1, newItem.ID) }
processChildren(kids, i, st, level, parentID) ==
    IF i > Len(kids) THEN st
    ELSE processChildren(kids, i + 1, processNestedNavPoints(kids[i], st, st.ret, level, parentID), level, parentID)

\* for i := range ncx.NavPoints { prev = processNestedNavPoints(ncx.NavPoints[i], e.TOC, prev, 0, uuid.New().String()) }
\* (the parentID argument is evaluated, and its uuid drawn, before the call)
RECURSIVE processRoots(_, _, _)
processRoots(navPoints, i, st) ==
    IF i > Len(navPoints) THEN st
    ELSE processRoots(navPoints, i + 1,
             processNestedNavPoints(navPoints[i], [st EXCEPT !.uuid = st.uuid + 1], st.ret, 0, NewUUID(st.uuid + 1)))

\* for _, link := range nav.NavLinks { newNode := e.TOC.Add(newItem, prev); prev = newNode }
RECURSIVE processNavLinks(_, _, _)
processNavLinks(links, i, st) ==
    IF i > Len(links) THEN st
    ELSE LET added == Add(st.list, NavLinkValue(links[i]), st.ret)
         IN  processNavLinks(links, i + 1, [st EXCEPT !.list = added.list, !.ret = added.ret])

\* the "./" prefix removal at the head of generateTOC
StripDotSlash(path) == IF HasPrefix(path, <<".", "/">>) THEN SubSeq(path, 3, Len(path)) ELSE path

\* isNCX := strings.HasSuffix(strings.ToLower(tocPath), ".ncx")
IsNCXPath(tocPath) == HasSuffix(ToLower(tocPath), <<".ncx">>)

\* generateTOC: file is the archive entry at the TOC path.
\* Result: [err, TOC, uuid]
generateTOC(tocPath, file, uuid) ==
    LET st0 == [list |-> NewDList, uuid |-> uuid, ret |-> 0]
    IN  IF file.kind = "noentry" THEN [err |-> "open", TOC |-> NewDList, uuid |-> uuid]
        ELSE IF IsNCXPath(StripDotSlash(tocPath))
        THEN IF file.kind # "ncx" THEN [err |-> "decode", TOC |-> NewDList, uuid |-> uuid]
             ELSE LET st == processRoots(file.NavPoints, 1, st0)
                  IN  [err |-> "", TOC |-> st.list, uuid |-> st.uuid]
        ELSE IF file.kind # "html" THEN [err |-> "decode", TOC |-> NewDList, uuid |-> uuid]
             ELSE LET st == processNavLinks(file.NavLinks, 1, st0)
                  IN  [err |-> "", TOC |-> st.list, uuid |-> st.uuid]

(***************************************************************************)
(* pkg/epub: locating the TOC document                                     *)
(***************************************************************************)
IsNCXItem(item) == item.MediaType = NCXMediaType

IsNavItem(item) == item.Properties = <<"nav">>

\* for _, item := range pkg.Manifest { if item.MediaType == ... { ...; break } }:
\* index of the first NCX item, 0 if the loop finds none
FirstNCXItem(manifest) ==
    IF \E i \in 1..Len(manifest) : IsNCXItem(manifest[i])
    THEN CHOOSE i \in 1..Len(manifest) : IsNCXItem(manifest[i]) /\ \A j \in 1..(i - 1) : ~IsNCXItem(manifest[j])
    ELSE 0

\* index of the first item whose properties are "nav", 0 if the loop finds none
FirstNavItem(manifest) ==
    IF \E i \in 1..Len(manifest) : IsNavItem(manifest[i])
    THEN CHOOSE i \in 1..Len(manifest) : IsNavItem(manifest[i]) /\ \A j \in 1..(i - 1) : ~IsNavItem(manifest[j])
    ELSE 0

\* mutant: for version "3.0" the Navigation Document is looked for first
FindTOCPath_NavFirst(p, rootDir) ==
    LET ncx == FirstNCXItem(p.Manifest)
        nav == FirstNavItem(p.Manifest)
        join(href) == IF rootDir # <<>> THEN rootDir \o href ELSE href
    IN  IF p.Version = <<"3.0">> /\ nav # 0 THEN join(p.Manifest[nav].Href)
        ELSE IF ncx # 0 THEN join(p.Manifest[ncx].Href)
        ELSE <<>>

\* the two loops of parseRootFile: the TOC path, <<>> when none is found
FindTOCPath(p, rootDir) ==
    LET ncx == FirstNCXItem(p.Manifest)
        nav == FirstNavItem(p.Manifest)
        join(href) == IF rootDir # <<>> THEN rootDir \o href ELSE href
    IN  IF ncx # 0 THEN join(p.Manifest[ncx].Href)
        ELSE IF p.Version = <<"3.0">> /\ nav # 0 THEN join(p.Manifest[nav].Href)
        ELSE <<>>

(***************************************************************************)
(* NewEpub: parseContainer, parseRootFile, initialize                      *)
(***************************************************************************)
Nil == [kind |-> "nil"]

ContainerFiles == {NoEntry, Malformed} \cup {[kind |-> "container", RootFiles |-> c] : c \in Containers}

PackageFiles == {NoEntry, Malformed} \cup {[kind |-> "package", Version |-> p.Version, Manifest |-> p.Manifest, Spine |-> p.Spine] : p \in Packages}

\* the Epub literal of NewEpub
NewEpubValue == [RootFile |-> <<>>, RootDir |-> <<>>, Version |-> <<>>, TOCPath |-> <<>>, TOC |-> NewDList]

\* the reader does not exist while the book is being opened
\* no function call is under evaluation
NoCall == call = Nil /\ ret = Nil

ReaderAbsent == r = Nil /\ book = Nil /\ fg = Nil /\ tasks = <<>> /\ reading = {} /\ crashed = FALSE

LoadInit ==
    /\ container \in ContainerFiles
    /\ pkg \in PackageFiles
    /\ tocFile = Nil
    /\ e = NewEpubValue
    /\ uuidCtr = 0
    /\ pc = "parseContainer"

Init == LoadInit /\ ReaderAbsent /\ NoCall

\* e.RootDir = filepath.Dir(e.RootFile); if e.RootDir != "" { e.RootDir += "/" }
RootDirOf(rootFile) == IF Dir(rootFile) # <<>> THEN Dir(rootFile) \o <<"/">> ELSE Dir(rootFile)

parseContainer ==
    /\ pc = "parseContainer"
    /\ IF container.kind # "container" \/ Len(container.RootFiles) = 0
       THEN pc' = "failed" /\ e' = e
       ELSE /\ e' = [e EXCEPT !.RootFile = container.RootFiles[1], !.RootDir = RootDirOf(container.RootFiles[1])]
            /\ pc' = "parseRootFile"
    /\ UNCHANGED <<container, pkg, tocFile, uuidCtr>>
    /\ UNCHANGED readerVars
    /\ UNCHANGED fnVars

parseRootFile ==
    /\ pc = "parseRootFile"
    /\ IF pkg.kind # "package"
       THEN pc' = "failed" /\ e' = e
       ELSE /\ e' = [e EXCEPT !.Version = pkg.Version, !.TOCPath = FindTOCPath(pkg, e.RootDir)]
            /\ pc' = "initialize"
    /\ UNCHANGED <<container, pkg, tocFile, uuidCtr>>
    /\ UNCHANGED readerVars
    /\ UNCHANGED fnVars

\* initialize decodes the package again, fills the (unused) manifestItems map
\* and calls generateTOC, whose error it returns.
initialize ==
    /\ pc = "initialize"
    /\ \E file \in TocFiles :
         /\ e.TOCPath = <<>> => file = NoEntry
         /\ tocFile' = file
         /\ LET res == generateTOC(e.TOCPath, file, uuidCtr)
            IN  IF res.err # ""
                THEN pc' = "failed" /\ e' = e /\ uuidCtr' = uuidCtr
                ELSE pc' = "opened" /\ e' = [e EXCEPT !.TOC = res.TOC] /\ uuidCtr' = res.uuid
    /\ UNCHANGED <<container, pkg>>
    /\ UNCHANGED readerVars
    /\ UNCHANGED fnVars

\* GetChapterContents(index) on the opened book: ret.entry is the name it
\* passes to e.File.Open
GetChapterContents ==
    /\ pc = "opened" /\ ret = Nil
    /\ \E index \in 0..DListLen(e.TOC) :
         /\ call' = [fn |-> "GetChapterContents", index |-> index]
         /\ ret' = IF index < 0 \/ index >= DListLen(e.TOC)
                   THEN [err |-> "chapter index out of range", entry |-> <<>>]
                   ELSE [err |-> "", entry |-> StripDotSlash(e.TOC.Slice[index + 1].Path)]
    /\ UNCHANGED loadVars
    /\ UNCHANGED readerVars

Next == parseContainer \/ parseRootFile \/ initialize \/ GetChapterContents

Spec == Init /\ [][Next]_vars

(***************************************************************************)
(* Properties of the opened book                                           *)
(***************************************************************************)
Opened == pc = "opened"

ChapterList == e.TOC.Slice

\* the manifest href of a spine entry, <<"?", idref>> when the manifest has no such id
SpineHref(idref) ==
    IF \E i \in 1..Len(pkg.Manifest) : pkg.Manifest[i].ID = idref
    THEN pkg.Manifest[CHOOSE i \in 1..Len(pkg.Manifest) : pkg.Manifest[i].ID = idref].Href
    ELSE <<"?", idref>>

\* every path referenced by a TOC document, at any nesting depth
RECURSIVE ForestPaths(_)
ForestPaths(navPoints) ==
    IF navPoints = <<>> THEN {}
    ELSE {splitPathAndFragment(Head(navPoints).Src)[1]} \cup ForestPaths(Head(navPoints).NavPoints) \cup ForestPaths(Tail(navPoints))

TOCPaths(file) ==
    IF file.kind = "ncx" THEN ForestPaths(file.NavPoints)
    ELSE IF file.kind = "html" THEN {splitPathAndFragment(file.NavLinks[i].Href)[1] : i \in 1..Len(file.NavLinks)}
    ELSE {}

\* the navPoint elements of a forest in document order, each with its
\* nesting depth and the position of its enclosing navPoint (0: none)
RECURSIVE Outline(_, _, _, _)
Outline(navPoints, depth, parent, offset) ==
    IF navPoints = <<>> THEN <<>>
    ELSE LET sub == Outline(Head(navPoints).NavPoints, depth + 1, offset + 1, offset + 1)
         IN  <<[depth |-> depth, parent |-> parent]>> \o sub \o Outline(Tail(navPoints), depth, parent, offset + 1 + Len(sub))

\* C1: the chapter list built at load time has exactly as many nodes as the
\* package spine has entries, whatever the TOC document contains.
C1_ListLengthIsSpineLength == Opened => DListLen(e.TOC) = Len(pkg.Spine)

\* C2: every node of a built chapter list has an id and no two nodes share
\* an id, for NCX documents and for Navigation Documents alike.
C2_IdsPresentAndUnique ==
    Opened => /\ \A i \in 1..Len(ChapterList) : ChapterList[i].ID # <<>>
              /\ \A i, j \in 1..Len(ChapterList) : i # j => ChapterList[i].ID # ChapterList[j].ID

\* C3: a navPoint nested at depth d becomes a node with level d whose
\* parentID is the id of the node built from its enclosing navPoint; the
\* nodes appear in document order (A > B > C gives levels 0, 1, 2 with
\* C.parentID = B.id and B.parentID = A.id).
C3_LevelsAndParentsFollowNesting ==
    (Opened /\ tocFile.kind = "ncx") =>
        LET o == Outline(tocFile.NavPoints, 0, 0, 0)
        IN  /\ Len(ChapterList) = Len(o)
            /\ \A i \in 1..Len(o) :
                 /\ ChapterList[i].Level = o[i].depth
                 /\ o[i].parent # 0 => ChapterList[i].ParentID = ChapterList[o[i].parent].ID

\* C3 witness: a book opened from an NCX whose navMap is the chain A > B > C
C3_Witness ==
    /\ Opened /\ tocFile.kind = "ncx"
    /\ Len(tocFile.NavPoints) = 1
    /\ Len(tocFile.NavPoints[1].NavPoints) = 1
    /\ Len(tocFile.NavPoints[1].NavPoints[1].NavPoints) = 1
    /\ Len(ChapterList) = 3

\* C4: every root node (level 0) has an empty parentID and every non-root
\* node has a parentID equal to the id of a node of the same list.
C4_ParentIDsWellFormed ==
    Opened => \A i \in 1..Len(ChapterList) :
                 /\ ChapterList[i].Level = 0 => ChapterList[i].ParentID = <<>>
                 /\ ChapterList[i].Level # 0 => \E j \in 1..Len(ChapterList) : ChapterList[j].ID = ChapterList[i].ParentID

\* a shadow node is a node that does not come from the TOC document: its
\* path is not referenced there
ShadowNodes == {i \in 1..Len(ChapterList) : ChapterList[i].Path \notin TOCPaths(tocFile)}

UnmatchedSpineEntries == {i \in 1..Len(pkg.Spine) : SpineHref(pkg.Spine[i]) \notin TOCPaths(tocFile)}

\* C5: the number of shadow nodes equals the number of spine entries whose
\* resolved href matches no path referenced in the TOC document.
C5_ShadowCountIsUnmatchedSpineCount == Opened => Cardinality(ShadowNodes) = Cardinality(UnmatchedSpineEntries)

\* NewEpub has returned after trying to read the TOC document
Returned == pc \in {"opened", "failed"} /\ tocFile # Nil

\* C6: if the TOC document is missing or cannot be decoded, opening still
\* succeeds and yields one level-0 shadow node per spine entry, in spine order.
C6_MissingTOCDegradesToSpine ==
    (Returned /\ tocFile.kind \in {"noentry", "malformed"}) =>
        /\ Opened
        /\ Len(ChapterList) = Len(pkg.Spine)
        /\ \A i \in 1..Len(ChapterList) : ChapterList[i].Level = 0 /\ ChapterList[i].Path = SpineHref(pkg.Spine[i])

\* parseRootFile has run on a decodable package document
RootFileParsed == pc = "initialize" \/ Returned

HasNCXItem == \E i \in 1..Len(pkg.Manifest) : pkg.Manifest[i].MediaType = NCXMediaType

\* C7: whenever the manifest contains an item with the NCX media type, that
\* item is the TOC document, also for version "3.0" with a Navigation
\* Document item present, whatever the order of the two.
C7_NCXItemSelected ==
    (RootFileParsed /\ HasNCXItem) =>
        \E i \in 1..Len(pkg.Manifest) :
            pkg.Manifest[i].MediaType = NCXMediaType /\ e.TOCPath = e.RootDir \o pkg.Manifest[i].Href

\* C7 witness: a version "3.0" package whose manifest lists the Navigation
\* Document before the NCX item
C7_Witness ==
    /\ RootFileParsed /\ pkg.Version = <<"3.0">>
    /\ \E i, j \in 1..Len(pkg.Manifest) : i < j /\ pkg.Manifest[i] = NavItem /\ pkg.Manifest[j] = NcxItem

\* the properties attribute is a space separated list of values
HasNavProperty(item) == "nav" \in Range(item.Properties)

\* C8: with no NCX item and version "3.0", the TOC document is the manifest
\* item whose properties attribute contains nav, alone or among other values.
C8_NavItemSelected ==
    (RootFileParsed /\ ~HasNCXItem /\ pkg.Version = <<"3.0">> /\ \E i \in 1..Len(pkg.Manifest) : HasNavProperty(pkg.Manifest[i])) =>
        \E i \in 1..Len(pkg.Manifest) :
            HasNavProperty(pkg.Manifest[i]) /\ e.TOCPath = e.RootDir \o pkg.Manifest[i].Href


(***************************************************************************)
(* ExtractBetweenAnchors (pkg/parser/anchor.go)                            *)
(*                                                                         *)
(* An HTML document is a sequence of tokens: an opening tag with at most   *)
(* one attribute, a closing tag, or a run of text.  A position of the Go   *)
(* string is a token boundary, 0 .. Len(content).  The attribute of an     *)
(* opening tag is written in one of three forms:                           *)
(*    "dq"  key="val"      "sq"  key='val'      "sp"  key = "val"          *)
(* All three give the element the attribute key=val; only the first two    *)
(* contain the literal text the string search looks for, and text that     *)
(* ends in such a literal contains it too (data-id="x" contains id="x").   *)
(***************************************************************************)
MaxDocLen == 6   \* tokens of a document

CloseTag == [t |-> "close", key |-> "", form |-> "", val |-> <<>>]

\* a run of text; val tells the texts of different files apart
Text(val) == [t |-> "text", key |-> "", form |-> "", val |-> val]

TextRun == Text(<<>>)

OpenTag(key, form, val) == [t |-> "open", key |-> key, form |-> form, val |-> val]

\* the opening tags of the documents: <div>, <p id="A">, <p id = "A">,
\* <div data-id="A">, <h2 id="B">, <h2 id = "B">, <a name='B'>
OpenTags ==
    {OpenTag("", "", <<>>), OpenTag("id", "dq", <<"A">>), OpenTag("id", "sp", <<"A">>), OpenTag("data-id", "dq", <<"A">>),
     OpenTag("id", "dq", <<"B">>), OpenTag("id", "sp", <<"B">>), OpenTag("name", "sq", <<"B">>)}

\* well-formed token sequences of exactly n tokens
RECURSIVE Forests(_)
Forests(n) ==
    IF n = 0 THEN {<<>>}
    ELSE {<<TextRun>> \o f : f \in Forests(n - 1)}
         \cup UNION {{<<o>> \o inner \o <<CloseTag>> \o rest : o \in OpenTags, inner \in Forests(i), rest \in Forests(n - 2 - i)} : i \in 0..(n - 2)}

Documents == UNION {Forests(n) : n \in 0..MaxDocLen}

\* the index of the closing tag of the element opened at index i
RECURSIVE MatchFrom(_, _, _)
MatchFrom(content, j, depth) ==
    IF j > Len(content) THEN Len(content)
    ELSE IF content[j].t = "open" THEN MatchFrom(content, j + 1, depth + 1)
    ELSE IF content[j].t = "close" THEN (IF depth = 0 THEN j ELSE MatchFrom(content, j + 1, depth - 1))
    ELSE MatchFrom(content, j + 1, depth)

MatchingClose(content, i) == MatchFrom(content, i + 1, 0)

\* the patterns of findAnchorPositions in the order they are tried:
\* id="%s", id='%s', name="%s", name='%s'
Patterns == <<[key |-> "id", form |-> "dq"], [key |-> "id", form |-> "sq"], [key |-> "name", form |-> "dq"], [key |-> "name", form |-> "sq"]>>

\* the text of attribute name k ends in the text `key`
KeyEndsWith(k, key) == k = key \/ (k = "data-id" /\ key = "id")

\* strings.Index(token, fmt.Sprintf(pattern, anchor)) != -1
ContainsPattern(tok, pattern, anchor) ==
    tok.t = "open" /\ tok.val = anchor /\ tok.form = pattern.form /\ KeyEndsWith(tok.key, pattern.key)

\* strings.Index(content[from:], pattern): the first token after position
\* `from` that contains the pattern, 0 if there is none
IndexOfPattern(content, from, pattern, anchor) ==
    IF \E i \in (from + 1)..Len(content) : ContainsPattern(content[i], pattern, anchor)
    THEN CHOOSE i \in (from + 1)..Len(content) :
             /\ ContainsPattern(content[i], pattern, anchor)
             /\ \A j \in (from + 1)..(i - 1) : ~ContainsPattern(content[j], pattern, anchor)
    ELSE 0

\* the loop "for _, pattern := range patterns" that stops at the first pattern
\* found: the token the first such pattern is found in, 0 if none is found
RECURSIVE FirstPatternMatch(_, _, _, _)
FirstPatternMatch(content, from, anchor, k) ==
    IF k > Len(Patterns) THEN 0
    ELSE IF IndexOfPattern(content, from, Patterns[k], anchor) # 0 THEN IndexOfPattern(content, from, Patterns[k], anchor)
    ELSE FirstPatternMatch(content, from, anchor, k + 1)

\* findAnchorPositions.  A pattern lies inside a tag, so walking back to '<'
\* gives the start of that tag (startTagPos), the next '>' its end (startPos),
\* and the last '<' before the end pattern the start of the tag it lies in.
findAnchorPositions(content, startAnchor, nextAnchor) ==
    LET s == FirstPatternMatch(content, 0, startAnchor, 1)
        startPos == IF s = 0 THEN -1 ELSE s
        startTagPos == IF s = 0 THEN -1 ELSE s - 1
        n == IF startPos # -1 /\ nextAnchor # <<>> THEN FirstPatternMatch(content, startPos, nextAnchor, 1) ELSE 0
        endPos == IF n = 0 THEN -1 ELSE n - 1
    IN  [startPos |-> startPos, endPos |-> endPos, startTagPos |-> startTagPos]

\* hasAnchor of extractContentDOM: an element with id == anchor or name == anchor
hasAnchor(tok, anchor) == tok.t = "open" /\ anchor # <<>> /\ tok.key \in {"id", "name"} /\ tok.val = anchor

\* html.Render writes every attribute as key="val"
RenderToken(tok) == IF tok.t = "open" /\ tok.key # "" THEN [tok EXCEPT !.form = "dq"] ELSE tok

Render(content, i, j) == [k \in 1..(j - i + 1) |-> RenderToken(content[i + k - 1])]

\* the first element in document order that has the start anchor, 0 if none
FirstWithAnchor(content, anchor) ==
    IF \E i \in 1..Len(content) : hasAnchor(content[i], anchor)
    THEN CHOOSE i \in 1..Len(content) : hasAnchor(content[i], anchor) /\ \A j \in 1..(i - 1) : ~hasAnchor(content[j], anchor)
    ELSE 0

\* traverse of extractContentDOM once capturing: the node at position p and
\* the nodes after it.  The closing tag of an enclosing element ends that
\* element's child loop and writes nothing; a node that has the end anchor
\* ends the traversal; any other node is rendered with its whole subtree and
\* its children are not visited.
RECURSIVE CaptureFrom(_, _, _)
CaptureFrom(content, p, nextAnchor) ==
    IF p > Len(content) THEN <<>>
    ELSE IF content[p].t = "close" THEN CaptureFrom(content, p + 1, nextAnchor)
    ELSE IF content[p].t = "text" THEN <<content[p]>> \o CaptureFrom(content, p + 1, nextAnchor)
    ELSE IF nextAnchor # <<>> /\ hasAnchor(content[p], nextAnchor) THEN <<>>
    ELSE Render(content, p, MatchingClose(content, p)) \o CaptureFrom(content, MatchingClose(content, p) + 1, nextAnchor)

\* extractContentDOM(doc, &buf, startAnchor, nextAnchor, true)
extractContentDOM(content, startAnchor, nextAnchor) ==
    LET i == FirstWithAnchor(content, startAnchor)
    IN  IF i = 0 THEN [found |-> FALSE, buf |-> <<>>]
        ELSE [found |-> TRUE,
              buf |-> Render(content, i, MatchingClose(content, i)) \o CaptureFrom(content, MatchingClose(content, i) + 1, nextAnchor)]

\* strings.TrimSpace(s) != "": tags and text runs are not white space
NotBlank(content) == Len(content) > 0

Failure(err) == [ok |-> FALSE, err |-> err, content |-> <<>>, path |-> ""]

\* ExtractBetweenAnchors(content, startAnchor, nextAnchor)
ExtractBetweenAnchors(content, startAnchor, nextAnchor) ==
    IF content = <<>> THEN Failure("empty content")
    ELSE IF startAnchor = <<>> THEN Failure("empty start anchor")
    ELSE LET pos == findAnchorPositions(content, startAnchor, nextAnchor)
             endPos == IF pos.endPos = -1 THEN Len(content) ELSE pos.endPos
             extractedContent == SubSeq(content, pos.startTagPos + 1, endPos)
             dom == extractContentDOM(content, startAnchor, nextAnchor)
         IN  IF pos.startTagPos # -1 /\ NotBlank(extractedContent)
             THEN [ok |-> TRUE, err |-> "", content |-> extractedContent, path |-> "fast"]
             ELSE IF ~dom.found THEN Failure("start anchor not found")
             ELSE IF ~NotBlank(dom.buf) THEN Failure("no content found between anchors")
             ELSE [ok |-> TRUE, err |-> "", content |-> dom.buf, path |-> "dom"]

(***************************************************************************)
(* Part II: the reader.                                                    *)
(*                                                                         *)
(* The foreground goroutine runs Run and then one key handler at a time.   *)
(* Background goroutines are started by Run, by nextChapter and by         *)
(* preloadContent.  No lock is taken anywhere in pkg/reader, so every      *)
(* access to a cache map and every archive read is a step of its own that  *)
(* the other goroutines interleave with.  A goroutine whose pc is a map    *)
(* access label is executing that map operation; the operation takes       *)
(* effect when the goroutine leaves the label.                             *)
(***************************************************************************)
NumChapters == 3     \* len(r.Book.Contents)
MaxVirtual == 2      \* len(r.Book.VirtualContents)
MaxTasks == 3        \* background goroutines alive at the same time
InitialWidth == 80   \* the width Run is called with
MaxRow == 2          \* the last row of a displayed text; the text area scrolls over rows 0..MaxRow
MaxBusy == 0         \* background goroutines still at work when a search, scroll, quit or previous-chapter key is pressed

\* r.Book.Contents
Contents == [i \in 1..NumChapters |-> <<"ch", i, ".xhtml">>]

\* the virtual chapters processVirtualChapters may find: anchors of one content file
VirtualPool == <<[FilePath |-> Contents[2], Fragment |-> <<"a">>, Title |-> <<"A">>], [FilePath |-> Contents[2], Fragment |-> <<"b">>, Title |-> <<"B">>], [FilePath |-> Contents[NumChapters], Fragment |-> <<"c">>, Title |-> <<"C">>]>>

\* a book whose virtual chapters all lie in its last content file
VirtualPoolLate == <<[FilePath |-> Contents[NumChapters], Fragment |-> <<"c">>, Title |-> <<"C">>], [FilePath |-> Contents[NumChapters], Fragment |-> <<"d">>, Title |-> <<"D">>], [FilePath |-> Contents[NumChapters], Fragment |-> <<"e">>, Title |-> <<"E">>]>>

\* the anchors a pool of virtual chapters places in a file, in pool order
RECURSIVE AnchorsIn(_, _)
AnchorsIn(pool, filePath) ==
    IF pool = <<>> THEN <<>>
    ELSE (IF Head(pool).FilePath = filePath THEN <<Head(pool).Fragment>> ELSE <<>>) \o AnchorsIn(Tail(pool), filePath)

RECURSIVE Sections(_, _, _)
Sections(anchors, form, filePath) ==
    IF anchors = <<>> THEN <<>>
    ELSE <<OpenTag("id", form, Head(anchors)), Text(filePath), CloseTag>> \o Sections(Tail(anchors), form, filePath)

\* the content files of a book: a title, then one section per anchor with
\*   "anchored"  <h2 id="a">      "spaced"  <h2 id = "a">
\* or, "plain", no section at all: the file lacks the anchors the table of
\* contents refers to
ChapterDocument(shape, filePath, anchors) ==
    <<OpenTag("", "", <<>>), Text(filePath), CloseTag>>
    \o (IF shape = "plain" THEN <<>> ELSE Sections(anchors, IF shape = "spaced" THEN "sp" ELSE "dq", filePath))

\* a book: the number of its virtual chapters, the content files missing from
\* the archive, the shape of its content files and the pool its virtual
\* chapters are taken from
MakeBook(n, missing, shape, pool) ==
    [Contents |-> Contents,
     VirtualContents |-> [i \in 1..n |-> [FilePath |-> pool[i].FilePath, Fragment |-> pool[i].Fragment]],
     VirtualTOCEntries |-> [i \in 1..n |-> pool[i].Title],
     Missing |-> missing,
     Files |-> [f \in Range(Contents) |-> ChapterDocument(shape, f, AnchorsIn(pool, f))]]

Books ==
    {MakeBook(0, m, "anchored", VirtualPool) : m \in {{}, {Contents[2]}}}
    \cup {MakeBook(n, m, "anchored", VirtualPool) : n \in 1..MaxVirtual, m \in {{}, {Contents[2]}}}
    \cup {MakeBook(n, {}, shape, VirtualPool) : n \in 1..MaxVirtual, shape \in {"spaced", "plain"}}
    \cup {MakeBook(n, {}, "anchored", VirtualPoolLate) : n \in 1..MaxVirtual}

\* map operations
Has(m, k) == k \in DOMAIN m

Put(m, k, v) == [x \in DOMAIN m \cup {k} |-> IF x = k THEN v ELSE m[x]]

EmptyMap == <<>>

\* the bytes of an archive entry, the result of HTMLParser.Parse and of FormatLines
FileContent(filePath) == book.Files[filePath]

Parse(content) == <<"dom", content>>

FormatLines(parser, width) == <<"lines", parser, width>>

\* fmt.Sprintf("%s_%d", filePath, r.UI.Width)
WidthKey(filePath, width) == filePath \o <<"_", width>>

\* status bar texts
RegularStatus(n, total) == <<"Reading chapter ", n, " of ", total>>

VirtualStatus(n, total, title) == <<"Reading chapter ", n, " of ", total, ": ">> \o title

ErrorStatus(what) == <<"Error reading ", what>>

LastChapterStatus == <<"Already at the last chapter">>

ClearedStatus == <<"All caches cleared">>

\* getCurrentVirtualChapter: the regular expression
\* `Reading chapter (\d+) of (\d+): (.+)` applied to the status bar text and
\* the title looked up in VirtualTOCEntries; -1 stands for (-1, false)
StatusMatches(status) ==
    /\ Len(status) >= 6
    /\ status[1] = "Reading chapter " /\ status[2] \in Nat /\ status[3] = " of " /\ status[4] \in Nat /\ status[5] = ": "

getCurrentVirtualChapter(status, titles) ==
    IF ~StatusMatches(status) THEN -1
    ELSE LET title == SubSeq(status, 6, Len(status))
         IN  IF \E i \in 1..Len(titles) : titles[i] = title
             THEN (CHOOSE i \in 1..Len(titles) : titles[i] = title /\ \A j \in 1..(i - 1) : titles[j] # title) - 1
             ELSE -1

\* the loop "for i, content := range r.Book.Contents { if content == filePath ..." : -1 if absent
FileIndexOf(contents, filePath) ==
    IF \E i \in 1..Len(contents) : contents[i] = filePath
    THEN (CHOOSE i \in 1..Len(contents) : contents[i] = filePath /\ \A j \in 1..(i - 1) : contents[j] # filePath) - 1
    ELSE -1

FirstChapterStatus == <<"Already at the first chapter">>

FoundStatus(wrapped) == IF wrapped THEN <<"Found: ", "a", " (wrapped)">> ELSE <<"Found: ", "a">>

NotFoundStatus(pattern) == <<"[red]Pattern not found:[white] ">> \o pattern

SearchClearedStatus == <<"Search cleared">>

\* len(lines) of a displayed text: every text fills the rows 0..MaxRow
LineCount(text) == IF text = <<>> THEN 0 ELSE MaxRow + 1

\* the rows of the text area whose line the pattern matches: the word "a"
\* stands on row 1 of every text, the word "zz" on none
MatchingRows(pattern, text) == IF pattern = <<"a">> /\ text # <<>> THEN {1} ELSE {}

\* "for i, line := range lines { if re.MatchString(line) { foundIndex = i; break } }": -1 if none
FirstMatch(pattern, text, from, to) ==
    IF \E i \in from..to : i \in MatchingRows(pattern, text)
    THEN CHOOSE i \in from..to : i \in MatchingRows(pattern, text) /\ \A j \in from..(i - 1) : j \notin MatchingRows(pattern, text)
    ELSE -1

\* the same loop run downwards: the last matching row of from..to, -1 if none
LastMatch(pattern, text, from, to) ==
    IF \E i \in from..to : i \in MatchingRows(pattern, text)
    THEN CHOOSE i \in from..to : i \in MatchingRows(pattern, text) /\ \A j \in (i + 1)..to : j \notin MatchingRows(pattern, text)
    ELSE -1

\* the end of nextChapter and prevChapter: with an active search pattern the
\* first occurrence in the text now displayed is scrolled to
SearchInNewChapter(rr) ==
    IF rr.SearchPattern # <<>> /\ FirstMatch(rr.SearchPattern, rr.Text, 0, LineCount(rr.Text) - 1) >= 0
    THEN [rr EXCEPT !.Row = FirstMatch(rr.SearchPattern, rr.Text, 0, LineCount(rr.Text) - 1), !.StatusBar = FoundStatus(FALSE)]
    ELSE rr

\* the end of readChapter: the lines are written to the text area, which is
\* scrolled to int(float64(lineCount) * pctg) if pctg > 0, else to its
\* beginning; pctg is held in percent.  Displayed remembers, for the requests
\* completed since the caches were last cleared, the lines shown first.
Display(rr, f, lines) ==
    [rr EXCEPT !.Text = lines,
               !.Row = IF f.pctg > 0 THEN (LineCount(lines) * f.pctg) \div 100 ELSE 0,
               !.Displayed = IF Has(rr.Displayed, f.widthKey) THEN @ ELSE Put(@, f.widthKey, lines)]

\* NewReader
NewReaderValue ==
    [CurrentChapter |-> 0, Width |-> InitialWidth,
     HTMLCache |-> EmptyMap, ParsedCache |-> EmptyMap, FormattedCache |-> EmptyMap,
     StatusBar |-> <<>>, Text |-> <<>>,
     SearchPattern |-> <<>>, Row |-> 0, Displayed |-> EmptyMap]

\* goroutine records
FreeTask == [pc |-> "free", filePath |-> <<>>, content |-> <<>>, parser |-> <<>>, widthKey |-> <<>>, lines |-> <<>>]

IdleFg == [pc |-> "idle", caller |-> "", hIndex |-> 0, arg |-> 0, saved |-> -1, pctg |-> 0, filePath |-> <<>>, widthKey |-> <<>>, content |-> <<>>, parser |-> <<>>, lines |-> <<>>]

TaskIds == 1..MaxTasks

\* go f(): the goroutine takes the first free slot; a goroutine that has
\* nothing to do (pc "free") takes none
Spawn(tt, task) ==
    IF task.pc = "free" THEN tt
    ELSE [tt EXCEPT ![CHOOSE t \in TaskIds : tt[t].pc = "free" /\ \A u \in 1..(t - 1) : tt[u].pc # "free"] = task]

\* slots the live goroutines need: one each, one more for the goroutine
\* preloadContent may still start
Reserved(tt) == Cardinality({t \in TaskIds : tt[t].pc # "free"}) + Cardinality({t \in TaskIds : tt[t].pc \in {"plHTMLRead", "plOpen", "plReadAll", "plHTMLWrite"}})

\* preloadContent, second half: "Preload first virtual chapter if available"
PreloadVirtualEntry ==
    IF Len(book.VirtualContents) > 0
    THEN [FreeTask EXCEPT !.pc = "spHTMLRead", !.filePath = book.VirtualContents[1].FilePath]
    ELSE FreeTask

\* preloadContent(startIndex), up to its first access to shared state
PreloadEntry(startIndex) ==
    IF startIndex + 1 < Len(book.Contents)
    THEN [FreeTask EXCEPT !.pc = "plHTMLRead", !.filePath = book.Contents[startIndex + 2]]
    ELSE PreloadVirtualEntry

\* the goroutine started at the end of nextChapter, up to its first access to shared state
NavGoroutineEntry(isVirtual, newIndex, newVirtualIndex) ==
    IF isVirtual
    THEN IF newVirtualIndex < Len(book.VirtualContents) - 1
         THEN [FreeTask EXCEPT !.pc = "spHTMLRead", !.filePath = book.VirtualContents[newVirtualIndex + 2].FilePath]
         ELSE FreeTask
    ELSE IF newIndex < Len(book.Contents) - 1 THEN PreloadEntry(newIndex) ELSE FreeTask


(***************************************************************************)
(* Reader: initial state                                                   *)
(***************************************************************************)
\* the book has been opened before the reader starts
LoaderDone == container = Nil /\ pkg = Nil /\ tocFile = Nil /\ e = Nil /\ uuidCtr = 0 /\ pc = "reader"

Fg == 0   \* the foreground goroutine; the background goroutines are TaskIds

ReaderInit ==
    /\ book \in Books
    /\ r = NewReaderValue
    /\ fg = [IdleFg EXCEPT !.pc = "start"]
    /\ tasks = [t \in TaskIds |-> FreeTask]
    /\ reading = {}
    /\ crashed = FALSE

CacheInit == LoaderDone /\ ReaderInit /\ NoCall

(***************************************************************************)
(* Foreground: how the handlers continue when readChapter or               *)
(* readVirtualChapter returns.  rr and tt are the Reader and the           *)
(* goroutines at that point, f the foreground's locals, err the result.    *)
(***************************************************************************)
\* nextChapter after the branches: "go func() { ... }()" and return to the event loop
NextChapterTail(rr, tt, isVirtual, newIndex, newVirtualIndex) ==
    /\ r' = SearchInNewChapter(rr)
    /\ tasks' = Spawn(tt, NavGoroutineEntry(isVirtual, newIndex, newVirtualIndex))
    /\ fg' = IdleFg

\* prevChapter after the branches: it starts no goroutine
PrevChapterTail(rr, tt) == r' = SearchInNewChapter(rr) /\ tasks' = tt /\ fg' = IdleFg

\* Run installs the input capture and enters the event loop
RunTail(rr, tt) == r' = rr /\ tasks' = tt /\ fg' = IdleFg

ReturnFromReadVirtual(rr, tt, f, err) ==
    IF f.caller = "nextChapter"
    THEN IF err
         THEN NextChapterTail([rr EXCEPT !.StatusBar = ErrorStatus("virtual chapter")], tt, FALSE, f.hIndex, -1)
         ELSE NextChapterTail(rr, tt, TRUE, f.hIndex, f.arg)
    ELSE IF f.caller \in {"prevChapter", "prevChapterLast"}
    THEN PrevChapterTail(IF err THEN [rr EXCEPT !.StatusBar = ErrorStatus(IF f.caller = "prevChapter" THEN "previous virtual chapter" ELSE "virtual chapter")] ELSE rr, tt)
    ELSE RunTail(IF err THEN [rr EXCEPT !.StatusBar = ErrorStatus("virtual chapter")] ELSE rr, tt)

\* readVirtualChapter(v) up to the archive read
CallReadVirtual(rr, tt, c, h, v) ==
    LET f == [IdleFg EXCEPT !.caller = c, !.hIndex = h, !.arg = v]
    IN  IF v < 0 \/ v >= Len(book.VirtualContents) THEN ReturnFromReadVirtual(rr, tt, f, TRUE)
        ELSE LET fileIndex == FileIndexOf(book.Contents, book.VirtualContents[v + 1].FilePath)
             IN  IF fileIndex = -1 THEN ReturnFromReadVirtual(rr, tt, f, TRUE)
                 ELSE /\ r' = [rr EXCEPT !.CurrentChapter = fileIndex]
                      /\ tasks' = tt
                      /\ fg' = [f EXCEPT !.pc = "rvOpen", !.filePath = book.Contents[fileIndex + 1]]

ReturnFromReadChapter(rr, tt, f, err) ==
    IF f.caller = "nextChapter"
    THEN NextChapterTail(IF err THEN [rr EXCEPT !.StatusBar = ErrorStatus("next chapter")] ELSE rr, tt,
                         FALSE, IF err THEN f.hIndex ELSE f.hIndex + 1, -1)
    ELSE IF f.caller = "prevChapter"
    THEN PrevChapterTail(IF err THEN [rr EXCEPT !.StatusBar = ErrorStatus("previous chapter")] ELSE rr, tt)
    ELSE LET r1 == IF err THEN [rr EXCEPT !.StatusBar = ErrorStatus("chapter")] ELSE rr
         IN  IF f.saved >= 0 /\ f.saved < Len(book.VirtualContents)
             THEN CallReadVirtual(r1, tt, "Run", f.hIndex, f.saved)
             ELSE RunTail(r1, tt)

\* readChapter(i, pctg) up to its first cache access
CallReadChapterAt(rr, tt, c, h, saved, i, pctg) ==
    LET f == [IdleFg EXCEPT !.caller = c, !.hIndex = h, !.arg = i, !.saved = saved, !.pctg = pctg]
    IN  IF i < 0 \/ i >= Len(book.Contents) THEN ReturnFromReadChapter(rr, tt, f, TRUE)
        ELSE /\ r' = [rr EXCEPT !.CurrentChapter = i, !.StatusBar = RegularStatus(i + 1, Len(book.Contents))]
             /\ tasks' = tt
             /\ fg' = [f EXCEPT !.pc = "rcHTMLRead", !.filePath = book.Contents[i + 1],
                                !.widthKey = WidthKey(book.Contents[i + 1], rr.Width)]

\* readChapter(i, 0)
CallReadChapter(rr, tt, c, h, saved, i) == CallReadChapterAt(rr, tt, c, h, saved, i, 0)

\* readVirtualChapter: the next anchor, used only if it lies in the same file
NextAnchorOf(v) ==
    IF v < Len(book.VirtualContents) - 1 /\ book.VirtualContents[v + 2].FilePath = book.VirtualContents[v + 1].FilePath
    THEN book.VirtualContents[v + 2].Fragment ELSE <<>>

\* readVirtualChapter: parser.ExtractBetweenAnchors(fileContent, fragment, nextAnchor)
ExtractionOf(v) ==
    ExtractBetweenAnchors(FileContent(book.VirtualContents[v + 1].FilePath), book.VirtualContents[v + 1].Fragment, NextAnchorOf(v))

\* readVirtualChapter without the fallback to the whole file
VirtualText_NoFallback(v, width) ==
    IF ExtractionOf(v).ok /\ ExtractionOf(v).content # <<>>
    THEN FormatLines(Parse(ExtractionOf(v).content), width)
    ELSE FormatLines(Parse(ExtractionOf(v).content), width)

\* the text readVirtualChapter displays for virtual chapter v at the given
\* width: the lines of the content between the chapter's anchor and the next
\* anchor or, if the extraction fails, the lines of the whole file
VirtualText(v, width) ==
    IF ExtractionOf(v).ok /\ ExtractionOf(v).content # <<>>
    THEN FormatLines(Parse(ExtractionOf(v).content), width)
    ELSE FormatLines(Parse(FileContent(book.VirtualContents[v + 1].FilePath)), width)

(***************************************************************************)
(* Foreground actions                                                      *)
(***************************************************************************)
\* Run(index, width, pos, pctg): index and the saved virtual chapter come from the state file
RunWith(index, sv, pctg) ==
    CallReadChapterAt(r, Spawn(tasks, PreloadEntry(index)), "Run", index, sv, index, pctg)

Run ==
    /\ ~crashed /\ fg.pc = "start"
    /\ \E index \in 0..(NumChapters - 1), sv \in -1..(Len(book.VirtualContents) - 1) : RunWith(index, sv, 0)
    /\ UNCHANGED <<book, reading, crashed>>
    /\ UNCHANGED loadVars
    /\ UNCHANGED fnVars

\* key 'n' with no search pattern: nextChapter(r.CurrentChapter, pos, pctg)
NextChapterKey ==
    /\ ~crashed /\ fg.pc = "idle" /\ r.SearchPattern = <<>>
    /\ Reserved(tasks) + 2 <= MaxTasks
    /\ LET v == getCurrentVirtualChapter(r.StatusBar, book.VirtualTOCEntries)
           index == r.CurrentChapter
       IN  IF v >= 0
           THEN IF v < Len(book.VirtualContents) - 1
                THEN CallReadVirtual(r, tasks, "nextChapter", index, v + 1)
                ELSE IF index < Len(book.Contents) - 1
                THEN CallReadChapter(r, tasks, "nextChapter", index, -1, index + 1)
                ELSE NextChapterTail([r EXCEPT !.StatusBar = LastChapterStatus], tasks, FALSE, index, -1)
           ELSE IF index < Len(book.Contents) - 1
                THEN CallReadChapter(r, tasks, "nextChapter", index, -1, index + 1)
                ELSE IF Len(book.VirtualContents) > 0
                THEN CallReadVirtual(r, tasks, "nextChapter", index, 0)
                ELSE NextChapterTail([r EXCEPT !.StatusBar = LastChapterStatus], tasks, FALSE, index, -1)
    /\ UNCHANGED <<book, reading, crashed>>
    /\ UNCHANGED loadVars
    /\ UNCHANGED fnVars

\* readChapter step 1: "if cachedContent, ok := r.HTMLCache[filePath]"
RcHTMLRead ==
    /\ ~crashed /\ fg.pc = "rcHTMLRead"
    /\ fg' = IF Has(r.HTMLCache, fg.filePath)
             THEN [fg EXCEPT !.pc = "rcParsedRead", !.content = r.HTMLCache[fg.filePath]]
             ELSE [fg EXCEPT !.pc = "rcOpen"]
    /\ UNCHANGED <<r, book, tasks, reading, crashed>>
    /\ UNCHANGED loadVars
    /\ UNCHANGED fnVars

\* GetChapterContent: e.File.Open(chapterPath)
RcOpen ==
    /\ ~crashed /\ fg.pc = "rcOpen"
    /\ IF fg.filePath \in book.Missing
       THEN ReturnFromReadChapter(r, tasks, fg, TRUE) /\ reading' = reading
       ELSE fg' = [fg EXCEPT !.pc = "rcReadAll"] /\ reading' = reading \cup {Fg} /\ UNCHANGED <<r, tasks>>
    /\ UNCHANGED <<book, crashed>>
    /\ UNCHANGED loadVars
    /\ UNCHANGED fnVars

\* GetChapterContent: io.ReadAll(chapterFile), deferred Close, return
RcReadAll ==
    /\ ~crashed /\ fg.pc = "rcReadAll"
    /\ fg' = [fg EXCEPT !.pc = "rcHTMLWrite", !.content = FileContent(fg.filePath)]
    /\ reading' = reading \ {Fg}
    /\ UNCHANGED <<r, book, tasks, crashed>>
    /\ UNCHANGED loadVars
    /\ UNCHANGED fnVars

\* mutant: the content read from the archive is not stored
RcHTMLWrite_NoStore ==
    /\ ~crashed /\ fg.pc = "rcHTMLWrite"
    /\ r' = r
    /\ fg' = [fg EXCEPT !.pc = "rcParsedRead"]
    /\ UNCHANGED <<book, tasks, reading, crashed>>
    /\ UNCHANGED loadVars
    /\ UNCHANGED fnVars

\* r.HTMLCache[filePath] = content
RcHTMLWrite ==
    /\ ~crashed /\ fg.pc = "rcHTMLWrite"
    /\ r' = [r EXCEPT !.HTMLCache = Put(r.HTMLCache, fg.filePath, fg.content)]
    /\ fg' = [fg EXCEPT !.pc = "rcParsedRead"]
    /\ UNCHANGED <<book, tasks, reading, crashed>>
    /\ UNCHANGED loadVars
    /\ UNCHANGED fnVars

\* readChapter step 2: "if cachedParser, ok := r.ParsedCache[filePath]", else Parse
RcParsedRead ==
    /\ ~crashed /\ fg.pc = "rcParsedRead"
    /\ fg' = IF Has(r.ParsedCache, fg.filePath)
             THEN [fg EXCEPT !.pc = "rcFmtRead", !.parser = r.ParsedCache[fg.filePath]]
             ELSE [fg EXCEPT !.pc = "rcParsedWrite", !.parser = Parse(fg.content)]
    /\ UNCHANGED <<r, book, tasks, reading, crashed>>
    /\ UNCHANGED loadVars
    /\ UNCHANGED fnVars

\* r.ParsedCache[filePath] = htmlParser
RcParsedWrite ==
    /\ ~crashed /\ fg.pc = "rcParsedWrite"
    /\ r' = [r EXCEPT !.ParsedCache = Put(r.ParsedCache, fg.filePath, fg.parser)]
    /\ fg' = [fg EXCEPT !.pc = "rcFmtRead"]
    /\ UNCHANGED <<book, tasks, reading, crashed>>
    /\ UNCHANGED loadVars
    /\ UNCHANGED fnVars

\* readChapter step 3: "if cachedLines, ok := r.FormattedCache[widthKey]": on a
\* hit the lines are displayed and readChapter returns, else FormatLines
RcFmtRead ==
    /\ ~crashed /\ fg.pc = "rcFmtRead"
    /\ IF Has(r.FormattedCache, fg.widthKey)
       THEN ReturnFromReadChapter(Display(r, fg, r.FormattedCache[fg.widthKey]), tasks, fg, FALSE)
       ELSE fg' = [fg EXCEPT !.pc = "rcFmtWrite", !.lines = FormatLines(fg.parser, r.Width)] /\ UNCHANGED <<r, tasks>>
    /\ UNCHANGED <<book, reading, crashed>>
    /\ UNCHANGED loadVars
    /\ UNCHANGED fnVars

\* r.FormattedCache[widthKey] = lines, display, return nil
RcFmtWrite ==
    /\ ~crashed /\ fg.pc = "rcFmtWrite"
    /\ ReturnFromReadChapter(Display([r EXCEPT !.FormattedCache = Put(r.FormattedCache, fg.widthKey, fg.lines)], fg, fg.lines), tasks, fg, FALSE)
    /\ UNCHANGED <<book, reading, crashed>>
    /\ UNCHANGED loadVars
    /\ UNCHANGED fnVars

\* readVirtualChapter: GetChapterContent, e.File.Open
RvOpen ==
    /\ ~crashed /\ fg.pc = "rvOpen"
    /\ IF fg.filePath \in book.Missing
       THEN ReturnFromReadVirtual(r, tasks, fg, TRUE) /\ reading' = reading
       ELSE fg' = [fg EXCEPT !.pc = "rvReadAll"] /\ reading' = reading \cup {Fg} /\ UNCHANGED <<r, tasks>>
    /\ UNCHANGED <<book, crashed>>
    /\ UNCHANGED loadVars
    /\ UNCHANGED fnVars

\* readVirtualChapter: io.ReadAll returns; extract, parse, format, display, SetStatus
RvReadAll ==
    /\ ~crashed /\ fg.pc = "rvReadAll"
    /\ reading' = reading \ {Fg}
    /\ ReturnFromReadVirtual([r EXCEPT !.Text = VirtualText(fg.arg, r.Width), !.Row = 0,
                                       !.StatusBar = VirtualStatus(fg.arg + 1, Len(book.VirtualTOCEntries), book.VirtualTOCEntries[fg.arg + 1])],
                             tasks, fg, FALSE)
    /\ UNCHANGED <<book, crashed>>
    /\ UNCHANGED loadVars
    /\ UNCHANGED fnVars


\* key 'C': clearCache("all"), first assignment: r.HTMLCache = make(map[string]string)
ClearCacheKey ==
    /\ ~crashed /\ fg.pc = "idle"
    /\ r' = [r EXCEPT !.HTMLCache = EmptyMap, !.Displayed = EmptyMap]
    /\ fg' = [fg EXCEPT !.pc = "ccParsed"]
    /\ UNCHANGED <<book, tasks, reading, crashed>>
    /\ UNCHANGED loadVars
    /\ UNCHANGED fnVars

\* clearCache("all"), second assignment: r.ParsedCache = make(...)
CcParsed ==
    /\ ~crashed /\ fg.pc = "ccParsed"
    /\ r' = [r EXCEPT !.ParsedCache = EmptyMap]
    /\ fg' = [fg EXCEPT !.pc = "ccFmt"]
    /\ UNCHANGED <<book, tasks, reading, crashed>>
    /\ UNCHANGED loadVars
    /\ UNCHANGED fnVars

\* clearCache("all"), r.FormattedCache = make(...) (and r.AnchorCache, which
\* nothing else reads or writes), then SetStatus("All caches cleared")
CcFmt ==
    /\ ~crashed /\ fg.pc = "ccFmt"
    /\ r' = [r EXCEPT !.FormattedCache = EmptyMap, !.StatusBar = ClearedStatus]
    /\ fg' = IdleFg
    /\ UNCHANGED <<book, tasks, reading, crashed>>
    /\ UNCHANGED loadVars
    /\ UNCHANGED fnVars


(***************************************************************************)
(* Background goroutines                                                   *)
(***************************************************************************)
\* preloadContent: "if _, ok := r.HTMLCache[filePath]; !ok" for the next chapter
PlHTMLRead(t) ==
    /\ ~crashed /\ tasks[t].pc = "plHTMLRead"
    /\ tasks' = [tasks EXCEPT ![t] = IF Has(r.HTMLCache, tasks[t].filePath) THEN PreloadVirtualEntry ELSE [@ EXCEPT !.pc = "plOpen"]]
    /\ UNCHANGED <<r, book, fg, reading, crashed>>
    /\ UNCHANGED loadVars
    /\ UNCHANGED fnVars

\* preloadContent: GetChapterContent(nextIndex), e.File.Open
PlOpen(t) ==
    /\ ~crashed /\ tasks[t].pc = "plOpen"
    /\ IF tasks[t].filePath \in book.Missing
       THEN tasks' = [tasks EXCEPT ![t] = PreloadVirtualEntry] /\ reading' = reading
       ELSE tasks' = [tasks EXCEPT ![t].pc = "plReadAll"] /\ reading' = reading \cup {t}
    /\ UNCHANGED <<r, book, fg, crashed>>
    /\ UNCHANGED loadVars
    /\ UNCHANGED fnVars

\* preloadContent: GetChapterContent(nextIndex), io.ReadAll and return
PlReadAll(t) ==
    /\ ~crashed /\ tasks[t].pc = "plReadAll"
    /\ tasks' = [tasks EXCEPT ![t].pc = "plHTMLWrite", ![t].content = FileContent(tasks[t].filePath)]
    /\ reading' = reading \ {t}
    /\ UNCHANGED <<r, book, fg, crashed>>
    /\ UNCHANGED loadVars
    /\ UNCHANGED fnVars

\* preloadContent: r.HTMLCache[filePath] = content; go func() { Parse ... }();
\* then the virtual half of preloadContent
PlHTMLWrite(t) ==
    /\ ~crashed /\ tasks[t].pc = "plHTMLWrite"
    /\ r' = [r EXCEPT !.HTMLCache = Put(r.HTMLCache, tasks[t].filePath, tasks[t].content)]
    /\ tasks' = Spawn([tasks EXCEPT ![t] = PreloadVirtualEntry],
                      [FreeTask EXCEPT !.pc = "ipParsedWrite", !.filePath = tasks[t].filePath,
                                       !.content = tasks[t].content, !.parser = Parse(tasks[t].content)])
    /\ UNCHANGED <<book, fg, reading, crashed>>
    /\ UNCHANGED loadVars
    /\ UNCHANGED fnVars

\* inner goroutine: r.ParsedCache[filePath] = htmlParser
IpParsedWrite(t) ==
    /\ ~crashed /\ tasks[t].pc = "ipParsedWrite"
    /\ r' = [r EXCEPT !.ParsedCache = Put(r.ParsedCache, tasks[t].filePath, tasks[t].parser)]
    /\ tasks' = [tasks EXCEPT ![t].pc = "ipWidthKey"]
    /\ UNCHANGED <<book, fg, reading, crashed>>
    /\ UNCHANGED loadVars
    /\ UNCHANGED fnVars

\* inner goroutine: widthKey := fmt.Sprintf("%s_%d", filePath, r.UI.Width)
IpWidthKey(t) ==
    /\ ~crashed /\ tasks[t].pc = "ipWidthKey"
    /\ tasks' = [tasks EXCEPT ![t].pc = "ipFormat", ![t].widthKey = WidthKey(tasks[t].filePath, r.Width)]
    /\ UNCHANGED <<r, book, fg, reading, crashed>>
    /\ UNCHANGED loadVars
    /\ UNCHANGED fnVars

\* inner goroutine: lines := htmlParser.FormatLines(r.UI.Width)
IpFormat(t) ==
    /\ ~crashed /\ tasks[t].pc = "ipFormat"
    /\ tasks' = [tasks EXCEPT ![t].pc = "ipFmtWrite", ![t].lines = FormatLines(tasks[t].parser, r.Width)]
    /\ UNCHANGED <<r, book, fg, reading, crashed>>
    /\ UNCHANGED loadVars
    /\ UNCHANGED fnVars

\* inner goroutine: r.FormattedCache[widthKey] = lines, and the goroutine ends
IpFmtWrite(t) ==
    /\ ~crashed /\ tasks[t].pc = "ipFmtWrite"
    /\ r' = [r EXCEPT !.FormattedCache = Put(r.FormattedCache, tasks[t].widthKey, tasks[t].lines)]
    /\ tasks' = [tasks EXCEPT ![t] = FreeTask]
    /\ UNCHANGED <<book, fg, reading, crashed>>
    /\ UNCHANGED loadVars
    /\ UNCHANGED fnVars

\* preload of a virtual chapter's file (preloadContent, second half, and the
\* goroutine of nextChapter): "if _, ok := r.HTMLCache[filePath]; !ok", file index lookup
SpHTMLRead(t) ==
    /\ ~crashed /\ tasks[t].pc = "spHTMLRead"
    /\ tasks' = [tasks EXCEPT ![t] = IF Has(r.HTMLCache, tasks[t].filePath) \/ FileIndexOf(book.Contents, tasks[t].filePath) = -1
                                     THEN FreeTask ELSE [@ EXCEPT !.pc = "spOpen"]]
    /\ UNCHANGED <<r, book, fg, reading, crashed>>
    /\ UNCHANGED loadVars
    /\ UNCHANGED fnVars

\* GetChapterContent(fileIndex), e.File.Open
SpOpen(t) ==
    /\ ~crashed /\ tasks[t].pc = "spOpen"
    /\ IF tasks[t].filePath \in book.Missing
       THEN tasks' = [tasks EXCEPT ![t] = FreeTask] /\ reading' = reading
       ELSE tasks' = [tasks EXCEPT ![t].pc = "spReadAll"] /\ reading' = reading \cup {t}
    /\ UNCHANGED <<r, book, fg, crashed>>
    /\ UNCHANGED loadVars
    /\ UNCHANGED fnVars

\* GetChapterContent(fileIndex), io.ReadAll and return
SpReadAll(t) ==
    /\ ~crashed /\ tasks[t].pc = "spReadAll"
    /\ tasks' = [tasks EXCEPT ![t].pc = "spHTMLWrite", ![t].content = FileContent(tasks[t].filePath)]
    /\ reading' = reading \ {t}
    /\ UNCHANGED <<r, book, fg, crashed>>
    /\ UNCHANGED loadVars
    /\ UNCHANGED fnVars

\* r.HTMLCache[filePath] = content, and the goroutine ends
SpHTMLWrite(t) ==
    /\ ~crashed /\ tasks[t].pc = "spHTMLWrite"
    /\ r' = [r EXCEPT !.HTMLCache = Put(r.HTMLCache, tasks[t].filePath, tasks[t].content)]
    /\ tasks' = [tasks EXCEPT ![t] = FreeTask]
    /\ UNCHANGED <<book, fg, reading, crashed>>
    /\ UNCHANGED loadVars
    /\ UNCHANGED fnVars

(***************************************************************************)
(* Map accesses in progress                                                *)
(***************************************************************************)
NoAccess == [store |-> "none", write |-> FALSE]

AccessAt(label) ==
    CASE label \in {"rcHTMLRead", "plHTMLRead", "spHTMLRead"} -> [store |-> "HTMLCache", write |-> FALSE]
      [] label \in {"rcHTMLWrite", "plHTMLWrite", "spHTMLWrite"} -> [store |-> "HTMLCache", write |-> TRUE]
      [] label = "rcParsedRead" -> [store |-> "ParsedCache", write |-> FALSE]
      [] label \in {"rcParsedWrite", "ipParsedWrite"} -> [store |-> "ParsedCache", write |-> TRUE]
      [] label = "rcFmtRead" -> [store |-> "FormattedCache", write |-> FALSE]
      [] label \in {"rcFmtWrite", "ipFmtWrite"} -> [store |-> "FormattedCache", write |-> TRUE]
      [] OTHER -> NoAccess

\* the map operation goroutine g is executing
Access(g) == IF g = Fg THEN AccessAt(fg.pc) ELSE AccessAt(tasks[g].pc)

Goroutines == {Fg} \cup TaskIds

\* two goroutines operate on the same map at the same time, one of them writing
Racing(g, h) == g # h /\ Access(g).store # "none" /\ Access(g).store = Access(h).store /\ (Access(g).write \/ Access(h).write)

\* the Go runtime may detect a concurrent map access and abort the process
\* ("fatal error: concurrent map read and map write", "concurrent map writes")
FatalMapAccess ==
    /\ ~crashed
    /\ \E g, h \in Goroutines : Racing(g, h)
    /\ crashed' = TRUE
    /\ UNCHANGED <<r, book, fg, tasks, reading>>
    /\ UNCHANGED loadVars
    /\ UNCHANGED fnVars

CacheNext ==
    \/ Run
    \/ NextChapterKey
    \/ RcHTMLRead \/ RcOpen \/ RcReadAll \/ RcHTMLWrite
    \/ RcParsedRead \/ RcParsedWrite \/ RcFmtRead \/ RcFmtWrite
    \/ RvOpen \/ RvReadAll
    \/ ClearCacheKey \/ CcParsed \/ CcFmt
    \/ \E t \in TaskIds : PlHTMLRead(t) \/ PlOpen(t) \/ PlReadAll(t) \/ PlHTMLWrite(t)
    \/ \E t \in TaskIds : IpParsedWrite(t) \/ IpWidthKey(t) \/ IpFormat(t) \/ IpFmtWrite(t)
    \/ \E t \in TaskIds : SpHTMLRead(t) \/ SpOpen(t) \/ SpReadAll(t) \/ SpHTMLWrite(t)
    \/ FatalMapAccess

CacheSpec == CacheInit /\ [][CacheNext]_vars

\* C9: every read and write of the raw, parsed and formatted cache stores
\* happens under mutual exclusion: no access by a background goroutine
\* overlaps a write to the same store by the foreground or by another
\* background goroutine, and no foreground access overlaps a background write.
C9_CacheAccessesExclusive == \A g, h \in Goroutines : ~Racing(g, h)

\* C10: at any moment at most one archive entry read (GetChapterContent) is
\* in progress.
C10_OneArchiveReadAtATime == Cardinality(reading) <= 1

\* the cache store accesses of the background goroutines
TaskAccessing(t) == AccessAt(tasks[t].pc).store # "none"

\* the foreground is inside clearCache("all"), between the emptying of the
\* first store and the emptying of the last one
MidClear == fg.pc \in {"ccParsed", "ccFmt"}

\* C11: clearAll empties all cache stores as one atomic step: while the
\* foreground is between the emptying of the first store and the emptying of
\* the last one, no background goroutine performs a read or a write of a store.
C11_ClearAllAtomic == [][MidClear => \A t \in TaskIds : (tasks'[t] # tasks[t] => ~TaskAccessing(t))]_vars

\* no goroutine is running: the foreground waits for a key and every
\* background goroutine has returned
PreloadFinished == ~crashed /\ fg.pc = "idle" /\ \A t \in TaskIds : tasks[t].pc = "free"

\* the last thing the foreground did was to display regular chapter n (0-based)
\* of a book all of whose files can be read
NavigatedTo(n) ==
    /\ r.CurrentChapter = n
    /\ r.StatusBar = RegularStatus(n + 1, Len(book.Contents))
    /\ book.Missing = {}

\* the three stores hold an entry for the file at the current width
CachedInAllStores(filePath) ==
    /\ Has(r.HTMLCache, filePath)
    /\ Has(r.ParsedCache, filePath)
    /\ Has(r.FormattedCache, WidthKey(filePath, r.Width))

\* C12: after navigating to chapter N (chapter N+1 existing), once the
\* background preload has finished, the raw, parsed and formatted stores each
\* hold an entry for chapter N+1 and, when virtual chapters exist, for the
\* file of the first virtual chapter.
C12_PreloadFillsAllStores ==
    \A n \in 0..(NumChapters - 2) :
        (PreloadFinished /\ NavigatedTo(n)) =>
            /\ CachedInAllStores(book.Contents[n + 2])
            /\ Len(book.VirtualContents) > 0 => CachedInAllStores(book.VirtualContents[1].FilePath)

\* the rendering of a whole content file at the current width
WholeFileText(filePath) == FormatLines(Parse(FileContent(filePath)), r.Width)

ShownFiles(text) == {text[2][2][k].val : k \in {j \in 1..Len(text[2][2]) : text[2][2][j].t = "text"}}

\* the last request failed: the status bar shows its error
RequestFailed == fg.pc = "idle" /\ r.StatusBar \in {ErrorStatus(w) : w \in {"chapter", "next chapter", "virtual chapter"}}

\* C18: a content-fetch failure leaves the session valid: after the failed
\* request the current chapter index denotes an existing chapter and it is the
\* chapter whose text is displayed.
C18_FetchFailureKeepsSessionValid ==
    RequestFailed =>
        /\ r.CurrentChapter \in 0..(Len(book.Contents) - 1)
        /\ r.Text # <<>>
        /\ ShownFiles(r.Text) = {book.Contents[r.CurrentChapter + 1]}

(***************************************************************************)
(* Part III: the evaluation of ExtractBetweenAnchors                       *)
(***************************************************************************)
\* the calls that are evaluated
AnchorCalls == [content : Documents, startAnchor : {<<>>, <<"A">>, <<"Z">>}, nextAnchor : {<<>>, <<"B">>}]

LoaderAbsent == container = Nil /\ pkg = Nil /\ tocFile = Nil /\ e = Nil /\ uuidCtr = 0 /\ pc = "none"

AnchorInit == LoaderAbsent /\ ReaderAbsent /\ call \in AnchorCalls /\ ret = Nil

CallExtractBetweenAnchors ==
    /\ ret = Nil
    /\ ret' = ExtractBetweenAnchors(call.content, call.startAnchor, call.nextAnchor)
    /\ UNCHANGED call
    /\ UNCHANGED loadVars
    /\ UNCHANGED readerVars

AnchorNext == CallExtractBetweenAnchors

AnchorSpec == AnchorInit /\ [][AnchorNext]_vars

\* the elements of a document that carry the anchor as id or name attribute
Carriers(content, anchor) == {i \in 1..Len(content) : hasAnchor(content[i], anchor)}

TheCarrier(content, anchor) == CHOOSE i \in Carriers(content, anchor) : TRUE

\* one element carries A, one element carries B, and A's comes first
APrecedesB(content) ==
    /\ Cardinality(Carriers(content, <<"A">>)) = 1
    /\ Cardinality(Carriers(content, <<"B">>)) = 1
    /\ TheCarrier(content, <<"A">>) < TheCarrier(content, <<"B">>)

\* ExtractBetweenAnchors(doc, <<"A">>, <<"B">>) has returned
ExtractedAB == ret # Nil /\ call.startAnchor = <<"A">> /\ call.nextAnchor = <<"B">>

IsPrefix(x, y) == Len(x) <= Len(y) /\ SubSeq(y, 1, Len(x)) = x

\* C13: for a document in which anchor A precedes anchor B, the result of
\* extractBetweenAnchors(doc, A, B) contains no element that carries B as its
\* id or name attribute, on the fast path and on the DOM path alike.
C13_EndAnchorExcluded ==
    (ExtractedAB /\ APrecedesB(call.content) /\ ret.ok) =>
        \A k \in 1..Len(ret.content) : ~hasAnchor(ret.content[k], <<"B">>)

\* the result begins with the element at index a of the document and holds
\* that element's whole subtree, as written in the document or as rendered
BeginsWithElement(result, content, a) ==
    LET m == MatchingClose(content, a)
    IN  /\ Len(result) >= m - a + 1
        /\ SubSeq(result, 1, m - a + 1) \in {SubSeq(content, a, m), Render(content, a, m)}

\* C14: for a document in which anchor A precedes anchor B, the result of
\* extractBetweenAnchors(doc, A, B) begins at the opening '<' of the tag of
\* the element whose id or name attribute is A and contains that element's
\* full subtree.  Checked for B outside A's subtree, where this does not
\* contradict the exclusion of B's element.
C14_BeginsAtStartAnchorElement ==
    (/\ ExtractedAB /\ APrecedesB(call.content)
     /\ TheCarrier(call.content, <<"B">>) > MatchingClose(call.content, TheCarrier(call.content, <<"A">>))) =>
        ret.ok /\ BeginsWithElement(ret.content, call.content, TheCarrier(call.content, <<"A">>))

\* C15: extractBetweenAnchors(doc, A, "") returns the slice running from A's
\* tag to the end of the document, for every end anchor B the result of
\* extractBetweenAnchors(doc, A, B) is a prefix of that slice, and the two are
\* equal when B is not found after A.
C15_EndAnchorGivesPrefix ==
    (ret # Nil /\ call.startAnchor = <<"A">> /\ Cardinality(Carriers(call.content, <<"A">>)) = 1) =>
        LET a == TheCarrier(call.content, <<"A">>)
            slice == SubSeq(call.content, a, Len(call.content))
            full == ExtractBetweenAnchors(call.content, <<"A">>, <<>>)
        IN  /\ full.ok /\ full.content = slice
            /\ ret.ok /\ IsPrefix(ret.content, slice)
            /\ (\A i \in Carriers(call.content, <<"B">>) : i < a) => ret.content = slice

\* C16: if no element of a non-empty document carries startAnchor as its id or
\* name attribute, extractBetweenAnchors fails with AnchorNotFound and returns
\* no content.
C16_MissingStartAnchorFails ==
    (ret # Nil /\ call.content # <<>> /\ call.startAnchor # <<>> /\ Carriers(call.content, call.startAnchor) = {}) =>
        ~ret.ok /\ ret.err = "start anchor not found" /\ ret.content = <<>>

(***************************************************************************)
(* Part IV (specification ParseSpec): HTMLParser.Parse of pkg/parser walks *)
(* the node tree of a document: handleStartTag, the children, handleEndTag *)
(* for an element, handleText for a text node.  A document is the sequence *)
(* of these visits; call.pos is the number of visits made, ret the parser. *)
(* The html, head and body elements html.Parse adds around the content     *)
(* leave the parser as NewHTMLParser made it when the first node of the    *)
(* content is visited; a document whose head is not empty is walked from   *)
(* its head element on.  Text nodes hold visible characters; sup and sub,  *)
(* the only users of p.buffer between two visits, occur in the documents   *)
(* of SupDocuments only.                                                   *)
(***************************************************************************)
MaxNodes == 6   \* visits (start tag, end tag, text) of a document
MaxHeadElements == 2   \* elements inside the head of a document

StartTag(tag) == [t |-> "open", tag |-> tag]

EndTag(tag) == [t |-> "close", tag |-> tag]

CharData == [t |-> "text", tag |-> ""]

Tags == {"h1", "blockquote", "pre", "code", "ul", "li", "script", "p"}

\* what the tree builder of html.Parse keeps as written: a script holds only
\* text, a p only inline content, and a heading or list item directly inside
\* another one would be made its sibling
MayContain(parent, child) ==
    /\ parent # "script"
    /\ parent = "p" => child = "code"
    /\ ~(parent = "h1" /\ child = "h1")
    /\ ~(parent = "li" /\ child = "li")

\* an element with one of the given child lists, followed by one of the given lists
ElementsThenRest(tag, inners, rests) == {<<StartTag(tag)>> \o inner \o <<EndTag(tag)>> \o rest : inner \in inners, rest \in rests}

RECURSIVE NodeLists(_, _)
NodeLists(n, parent) ==
    IF n = 0 THEN {<<>>}
    ELSE {<<CharData>> \o f : f \in NodeLists(n - 1, parent)}
         \cup UNION {ElementsThenRest(it[2], NodeLists(it[1], it[2]), NodeLists(n - 2 - it[1], parent)) :
                         it \in {x \in (0..(n - 2)) \X Tags : MayContain(parent, x[2])}}

HTMLDocuments == UNION {NodeLists(n, "body") : n \in 1..MaxNodes}

\* NewHTMLParser
NewHTMLParser ==
    [text |-> <<<<>>>>, isHead |-> FALSE, isInde |-> FALSE, isBull |-> FALSE, isPref |-> FALSE, isCode |-> FALSE, isHidden |-> FALSE,
     headIDs |-> {}, indeIDs |-> {}, bullIDs |-> {}, prefIDs |-> {}, codeIDs |-> {}, buffer |-> <<>>]

IndentTags == {"q", "dt", "dd", "blockquote"}

HiddenTags == {"script", "style", "head"}

\* handleStartTag with one shared set of flags
StartTagFlags(p, tag) ==
    IF tag = "h1" THEN [p EXCEPT !.isHead = TRUE]
    ELSE IF tag \in IndentTags THEN [p EXCEPT !.isInde = TRUE]
    ELSE IF tag = "pre" THEN [p EXCEPT !.isPref = TRUE, !.isCode = TRUE]
    ELSE IF tag = "code" THEN (IF p.isPref THEN [p EXCEPT !.isCode = TRUE] ELSE p)
    ELSE IF tag = "li" THEN [p EXCEPT !.isBull = TRUE]
    ELSE IF tag \in HiddenTags THEN [p EXCEPT !.isHidden = TRUE]
    ELSE IF tag = "sup" THEN [p EXCEPT !.buffer = @ \o <<"^{">>]
    ELSE IF tag = "sub" THEN [p EXCEPT !.buffer = @ \o <<"_{">>]
    ELSE p

\* "if p.text[len(p.text)-1] != "" { p.text = append(p.text, "") }"
EndLine(text) == IF text[Len(text)] # <<>> THEN Append(text, <<>>) ELSE text

\* handleEndTag
EndTagFlags(p, tag) ==
    IF tag = "h1" THEN [p EXCEPT !.text = Append(Append(p.text, <<>>), <<>>), !.isHead = FALSE]
    ELSE IF tag \in {"p", "div"} THEN [p EXCEPT !.text = Append(p.text, <<>>)]
    ELSE IF tag \in HiddenTags THEN [p EXCEPT !.isHidden = FALSE]
    ELSE IF tag \in IndentTags THEN [p EXCEPT !.text = EndLine(p.text), !.isInde = FALSE]
    ELSE IF tag = "pre" THEN [p EXCEPT !.text = EndLine(p.text), !.isPref = FALSE, !.isCode = FALSE]
    ELSE IF tag = "code" THEN (IF p.isPref /\ p.isCode THEN [p EXCEPT !.isCode = FALSE] ELSE p)
    ELSE IF tag = "li" THEN [p EXCEPT !.text = EndLine(p.text), !.isBull = FALSE]
    ELSE IF tag \in {"sub", "sup"} THEN [p EXCEPT !.buffer = @ \o <<"}">>]
    ELSE p

\* handleText: the text joins the buffer, the buffer is added to the last
\* line and emptied, and the line is marked with the first of heading,
\* bullet, indented, preformatted that is set
TextFlags(p) ==
    IF p.isHidden THEN p
    ELSE LET lineIndex == Len(p.text) - 1
             q == [p EXCEPT !.text[Len(p.text)] = @ \o p.buffer \o <<"x">>, !.buffer = <<>>]
         IN  IF p.isHead THEN [q EXCEPT !.headIDs = @ \cup {lineIndex}]
             ELSE IF p.isBull THEN [q EXCEPT !.bullIDs = @ \cup {lineIndex}]
             ELSE IF p.isInde THEN [q EXCEPT !.indeIDs = @ \cup {lineIndex}]
             ELSE IF p.isPref THEN [q EXCEPT !.prefIDs = @ \cup {lineIndex}, !.codeIDs = IF p.isCode THEN @ \cup {lineIndex} ELSE @]
             ELSE q

\* what html.Parse keeps inside head: title, style and script elements,
\* each holding at most one text node
HeadElements == {<<StartTag(tag)>> \o text \o <<EndTag(tag)>> : tag \in {"title", "style", "script"}, text \in {<<>>, <<CharData>>}}

RECURSIVE HeadLists(_)
HeadLists(n) ==
    IF n = 0 THEN {<<>>}
    ELSE HeadLists(n - 1) \cup {h \o el : h \in HeadLists(n - 1), el \in HeadElements}

\* documents with a head that is not empty, walked from the head element on
HeadDocuments ==
    {<<StartTag("head")>> \o h \o <<EndTag("head")>> \o b : h \in HeadLists(MaxHeadElements) \ {<<>>}, b \in {<<>>, <<CharData>>}}

\* a sup or sub element after some text, alone or inside a paragraph, as
\* the last content of the document or followed by more
SupDocuments ==
    UNION {{<<CharData, StartTag(tag), CharData, EndTag(tag)>> \o rest : rest \in {<<>>, <<CharData>>}}
           \cup {<<StartTag("p"), CharData, StartTag(tag), CharData, EndTag(tag), EndTag("p")>> \o rest :
                     rest \in {<<>>, <<StartTag("p"), CharData, EndTag("p")>>}} : tag \in {"sup", "sub"}}

ParseInit ==
    /\ LoaderAbsent /\ ReaderAbsent
    /\ call \in [content : HTMLDocuments \cup HeadDocuments \cup SupDocuments, pos : {0}]
    /\ ret = NewHTMLParser

\* the node parseNode visits next
NextNode == call.content[call.pos + 1]

Visiting(kind) == call.pos < Len(call.content) /\ NextNode.t = kind

handleStartTag ==
    /\ Visiting("open")
    /\ ret' = StartTagFlags(ret, NextNode.tag)
    /\ call' = [call EXCEPT !.pos = @ + 1]
    /\ UNCHANGED loadVars
    /\ UNCHANGED readerVars

handleText ==
    /\ Visiting("text")
    /\ ret' = TextFlags(ret)
    /\ call' = [call EXCEPT !.pos = @ + 1]
    /\ UNCHANGED loadVars
    /\ UNCHANGED readerVars

handleEndTag ==
    /\ Visiting("close")
    /\ ret' = EndTagFlags(ret, NextNode.tag)
    /\ call' = [call EXCEPT !.pos = @ + 1]
    /\ UNCHANGED loadVars
    /\ UNCHANGED readerVars

ParseNext == handleStartTag \/ handleText \/ handleEndTag

ParseSpec == ParseInit /\ [][ParseNext]_vars

\* the elements that are open after the first n visits, outermost first
RECURSIVE OpenElements(_, _)
OpenElements(content, n) ==
    IF n = 0 THEN <<>>
    ELSE IF content[n].t = "open" THEN Append(OpenElements(content, n - 1), content[n].tag)
    ELSE IF content[n].t = "close" THEN SubSeq(OpenElements(content, n - 1), 1, Len(OpenElements(content, n - 1)) - 1)
    ELSE OpenElements(content, n - 1)

\* the formatting context an open element puts in force
InForce(p, tag) ==
    /\ tag = "h1" => p.isHead
    /\ tag \in IndentTags => p.isInde
    /\ tag = "pre" => p.isPref /\ p.isCode
    /\ tag = "li" => p.isBull
    /\ tag \in HiddenTags => p.isHidden

\* C19: the renderer keeps its formatting context per nesting level: at every
\* point of the walk, also after the closing tag of an inner element, the
\* context (heading, indented, preformatted, bullet, code, hidden) of every
\* still-open enclosing element is in force.
C19_EnclosingContextInForce ==
    \A k \in 1..Len(OpenElements(call.content, call.pos)) : InForce(ret, OpenElements(call.content, call.pos)[k])

(***************************************************************************)
(* Part V (specification VirtualSpec): processVirtualChapters of           *)
(* pkg/epub/epub.go turns the entries of the table of contents that point  *)
(* into a content file (src "file#fragment") into virtual chapters.        *)
(***************************************************************************)
MaxEntries == 3   \* navPoint or link elements of the table of contents

\* e.Contents
EpubContents == <<<<"OEBPS", "/", "ch1", ".xhtml">>, <<"OEBPS", "/", "ch2", ".xhtml">>>>

\* what the entries point to; "%23" is an escaped '#'
EntrySrcs ==
    {<<"ch1", ".xhtml">>, <<"ch1", ".xhtml", "#", "a">>, <<"ch1", ".xhtml", "#", "b">>, <<"ch1", ".xhtml", "%23", "b">>,
     <<"ch2", ".xhtml", "#", "a">>, <<"zz", ".xhtml", "#", "a">>}

\* the decoded table of contents: ncx.NavPoints or nav.NavLinks
EntryLists == SeqsUpTo({[Text |-> <<"t">>, Src |-> src] : src \in EntrySrcs}, MaxEntries)

\* every content file holds section a, then section b
ContentDocument(filePath) == ChapterDocument("anchored", filePath, <<<<"a">>, <<"b">>>>)

\* url.QueryUnescape
QueryUnescape(src) == [i \in 1..Len(src) |-> IF src[i] = "%23" THEN "#" ELSE IF src[i] = "+" THEN " " ELSE src[i]]

\* strings.Contains
Contains(str, substr) == \E i \in 1..(Len(str) + 1) : i + Len(substr) - 1 <= Len(str) /\ SubSeq(str, i, i + Len(substr) - 1) = substr

\* the loop "for i, content := range e.Contents { if strings.Contains(content, filePath)": -1 if none
ContentIndexOf(contents, filePath) ==
    IF \E i \in 1..Len(contents) : Contains(contents[i], filePath)
    THEN (CHOOSE i \in 1..Len(contents) : Contains(contents[i], filePath) /\ \A j \in 1..(i - 1) : ~Contains(contents[j], filePath)) - 1
    ELSE -1

\* the loop over the navPoints (NCX) or navLinks (navigation document): an
\* entry without fragment or without content file is skipped, every other
\* entry is appended
RECURSIVE AppendVirtualChapters(_, _, _)
AppendVirtualChapters(acc, entries, contents) ==
    IF entries = <<>> THEN acc
    ELSE LET parts == splitPathAndFragment(QueryUnescape(Head(entries).Src))
             contentIndex == ContentIndexOf(contents, parts[1])
         IN  IF parts[2] = <<>> \/ contentIndex = -1
             THEN AppendVirtualChapters(acc, Tail(entries), contents)
             ELSE AppendVirtualChapters(
                      [acc EXCEPT !.VirtualContents = Append(@, [FilePath |-> contents[contentIndex + 1], Fragment |-> parts[2]]),
                                  !.VirtualTOCEntries = Append(@, Head(entries).Text)],
                      Tail(entries), contents)

\* processVirtualChapters
processVirtualChaptersResult(tocPath, file, contents) ==
    IF file = NoEntry THEN [err |-> "open", VirtualContents |-> <<>>, VirtualTOCEntries |-> <<>>]
    ELSE IF file = Malformed THEN [err |-> "decode", VirtualContents |-> <<>>, VirtualTOCEntries |-> <<>>]
    ELSE IF IsNCXPath(StripDotSlash(tocPath))
    THEN AppendVirtualChapters([err |-> "", VirtualContents |-> <<>>, VirtualTOCEntries |-> <<>>], file.NavPoints, contents)
    ELSE AppendVirtualChapters([err |-> "", VirtualContents |-> <<>>, VirtualTOCEntries |-> <<>>], file.NavLinks, contents)

VirtualCalls ==
    {[TOC |-> <<"toc", ".ncx">>, file |-> f, Contents |-> EpubContents] : f \in {NoEntry, Malformed} \cup {[kind |-> "ncx", NavPoints |-> l] : l \in EntryLists}}
    \cup {[TOC |-> <<".", "/", "nav", ".xhtml">>, file |-> f, Contents |-> EpubContents] : f \in {NoEntry, Malformed} \cup {[kind |-> "html", NavLinks |-> l] : l \in EntryLists}}

VirtualInit == LoaderAbsent /\ ReaderAbsent /\ call \in VirtualCalls /\ ret = Nil

processVirtualChapters ==
    /\ ret = Nil
    /\ ret' = processVirtualChaptersResult(call.TOC, call.file, call.Contents)
    /\ UNCHANGED call
    /\ UNCHANGED loadVars
    /\ UNCHANGED readerVars

VirtualNext == processVirtualChapters

VirtualSpec == VirtualInit /\ [][VirtualNext]_vars

\* the position of the element that carries the anchor, 0 if there is none
AnchorPosition(content, anchor) == FirstWithAnchor(content, anchor)

\* C20: consecutive virtual ranges that share a filePath are listed in the
\* document order of their start anchors and do not overlap: the content
\* extracted for a range ends before the start anchor of the next range of
\* the same file.
C20_RangesOrderedAndDisjoint ==
    (ret # Nil /\ ret.err = "") =>
        \A i \in 1..(Len(ret.VirtualContents) - 1) :
            LET this == ret.VirtualContents[i]
                next == ret.VirtualContents[i + 1]
                content == ContentDocument(this.FilePath)
                extracted == ExtractBetweenAnchors(content, this.Fragment, next.Fragment)
            IN  this.FilePath = next.FilePath =>
                    /\ AnchorPosition(content, this.Fragment) < AnchorPosition(content, next.Fragment)
                    /\ extracted.ok
                    /\ \A k \in 1..Len(extracted.content) : ~hasAnchor(extracted.content[k], next.Fragment)

(***************************************************************************)
(* Part VI (specification CodeSpec): highlightUniversal of                 *)
(* pkg/parser/code.go colours one line of a code block.  Here a string is  *)
(* the sequence of its characters; a colour marker such as "[#FFFF00]" is  *)
(* one element of the output.  A line holds no newline (formatLines splits *)
(* at newlines before it formats).                                         *)
(***************************************************************************)
MaxCodeLen == 3   \* characters of an enumerated code line

\* character classes of the regular expressions, over the characters that occur
Digits == {"4", "2"}

Letters == {"h", "e", "l", "o", "n", "t", "f", "i", "_"}

WordChars == Letters \cup Digits

Spaces == {" "}

\* the double quote, the single quote and the backtick (written "BACKTICK")
Quotes == <<"\"", "'", "BACKTICK">>

\* the line of the example: "hello" // note 42
ExampleLine == <<"\"", "h", "e", "l", "l", "o", "\"", " ", "/", "/", " ", "n", "o", "t", "e", " ", "4", "2">>

\* the number of characters from position i on that lie in class
RECURSIVE RunLen(_, _, _)
RunLen(code, i, class) == IF i <= Len(code) /\ code[i] \in class THEN 1 + RunLen(code, i + 1, class) ELSE 0

\* ("[^"]*"): the position of the next quote q after i, 0 if there is none
RECURSIVE ClosingQuote(_, _, _)
ClosingQuote(code, j, q) == IF j > Len(code) THEN 0 ELSE IF code[j] = q THEN j ELSE ClosingQuote(code, j + 1, q)

StartsWith(code, i, p) == i + Len(p) - 1 <= Len(code) /\ SubSeq(code, i, i + Len(p) - 1) = p

CommentMarks == {<<"/", "/">>, <<"#">>, <<"-", "-">>}

\* the alternatives of the pattern at position i, in order; a line comment
\* (//.*) runs to the end of the line.  A comment that stops at the next
\* space would leave the rest of the line to the later alternatives.
MatchLen_CommentToSpace(code, i) ==
    IF \E k \in 1..3 : code[i] = Quotes[k] /\ ClosingQuote(code, i + 1, Quotes[k]) # 0
    THEN ClosingQuote(code, i + 1, code[i]) - i + 1
    ELSE IF \E m \in CommentMarks : StartsWith(code, i, m) THEN RunLen(code, i, {code[k] : k \in 1..Len(code)} \ Spaces)
    ELSE IF code[i] \in Digits \cup {"."} THEN RunLen(code, i, Digits \cup {"."})
    ELSE IF code[i] \in Letters THEN RunLen(code, i, WordChars)
    ELSE IF code[i] \notin Spaces THEN 1
    ELSE RunLen(code, i, Spaces)

\* the length of the match of the pattern of tokenizeCode that starts at i
MatchLen(code, i) ==
    IF \E k \in 1..3 : code[i] = Quotes[k] /\ ClosingQuote(code, i + 1, Quotes[k]) # 0
    THEN ClosingQuote(code, i + 1, code[i]) - i + 1
    ELSE IF \E m \in CommentMarks : StartsWith(code, i, m) THEN Len(code) - i + 1
    ELSE IF code[i] \in Digits \cup {"."} THEN RunLen(code, i, Digits \cup {"."})
    ELSE IF code[i] \in Letters THEN RunLen(code, i, WordChars)
    ELSE IF code[i] \notin Spaces THEN 1
    ELSE RunLen(code, i, Spaces)

RECURSIVE TokensFrom(_, _)
TokensFrom(code, i) ==
    IF i > Len(code) THEN <<>>
    ELSE <<SubSeq(code, i, i + MatchLen(code, i) - 1)>> \o TokensFrom(code, i + MatchLen(code, i))

\* tokenizeCode: pattern.FindAllStringIndex(code, -1)
tokenizeCode(code) == TokensFrom(code, 1)

\* regexp ^\d+(\.\d+)?$
IsNumber(token) ==
    \/ token # <<>> /\ \A k \in 1..Len(token) : token[k] \in Digits
    \/ \E d \in 2..(Len(token) - 1) :
          /\ token[d] = "."
          /\ \A k \in (1..Len(token)) \ {d} : token[k] \in Digits

\* strings.ToUpper
ToUpper(token) ==
    [k \in 1..Len(token) |->
        CASE token[k] = "h" -> "H" [] token[k] = "e" -> "E" [] token[k] = "l" -> "L" [] token[k] = "o" -> "O"
          [] token[k] = "n" -> "N" [] token[k] = "t" -> "T" [] token[k] = "f" -> "F" [] token[k] = "i" -> "I" [] OTHER -> token[k]]

\* the entries of the keyword tables that the letters of the model can spell
isSQLKeyword(token) ==
    ToUpper(token) \in {<<"N", "O">>, <<"O", "N">>, <<"N", "O", "T">>, <<"T", "H", "E", "N">>, <<"L", "E", "F", "T">>,
                        <<"I", "F">>, <<"I", "N">>, <<"I", "N", "T">>, <<"I", "N", "T", "O">>}

isDataType(token) == token \in {<<"l", "e", "t">>, <<"i", "n", "t">>}

isControlFlow(token) == token \in {<<"o", "f">>, <<"i", "f">>, <<"i", "n">>, <<"e", "l", "i", "f">>}

isOtherKeyword(token) == token \in {<<"f", "n">>, <<"n", "o", "t">>, <<"n", "i", "l">>}

Wrapped(colour, token) == <<colour>> \o token \o <<"[-]">>

\* colorizeToken
colorizeToken(token) ==
    IF \E k \in 1..3 : HasPrefix(token, <<Quotes[k]>>) /\ HasSuffix(token, <<Quotes[k]>>) THEN Wrapped("[#FFFF00]", token)
    ELSE IF \E m \in CommentMarks : HasPrefix(token, m) THEN Wrapped("[#00FF00]", token)
    ELSE IF IsNumber(token) THEN Wrapped("[#FF8800]", token)
    ELSE IF isSQLKeyword(token) THEN Wrapped("[#FF00AA]", token)
    ELSE IF isDataType(token) THEN Wrapped("[#00FFFF]", token)
    ELSE IF isControlFlow(token) THEN Wrapped("[#FF00FF]", token)
    ELSE IF isOtherKeyword(token) THEN Wrapped("[#0088FF]", token)
    ELSE token

RECURSIVE Concat(_)
Concat(ss) == IF ss = <<>> THEN <<>> ELSE Head(ss) \o Concat(Tail(ss))

\* highlightUniversal: the tokens and the string built from them
highlightUniversal(code) ==
    [tokens |-> tokenizeCode(code),
     out |-> Concat([k \in 1..Len(tokenizeCode(code)) |-> colorizeToken(tokenizeCode(code)[k])])]

CodeAlphabet == {"\"", "'", "/", "#", "-", " ", "4", ".", "o", "f", "n", "i", "t", "+"}

CodeLines == SeqsUpTo(CodeAlphabet, MaxCodeLen) \cup {ExampleLine}

CodeInit == LoaderAbsent /\ ReaderAbsent /\ call \in [code : CodeLines] /\ ret = Nil

CallHighlightUniversal ==
    /\ ret = Nil
    /\ ret' = highlightUniversal(call.code)
    /\ UNCHANGED call
    /\ UNCHANGED loadVars
    /\ UNCHANGED readerVars

CodeNext == CallHighlightUniversal

CodeSpec == CodeInit /\ [][CodeNext]_vars

\* the tokens of the result that colorizeToken wrapped with the colour
ColouredTokens(colour) == {k \in 1..Len(ret.tokens) : colorizeToken(ret.tokens[k]) = Wrapped(colour, ret.tokens[k])}

HighlightedExample == call.code = ExampleLine /\ ret # Nil

\* C21: the code line "hello" // note 42 is tokenized into a string token
\* ("hello"), a comment token and a numeric token (42), each wrapped with a
\* different colour marker, and the two spaces of the line are emitted
\* unchanged.
C21_ExampleLineThreeColouredTokens ==
    HighlightedExample =>
        /\ \E s \in ColouredTokens("[#FFFF00]") : ret.tokens[s] = SubSeq(ExampleLine, 1, 7)
        /\ \E c \in ColouredTokens("[#00FF00]") : HasPrefix(ret.tokens[c], <<"/", "/">>)
        /\ \E n \in ColouredTokens("[#FF8800]") : ret.tokens[n] = <<"4", "2">>
        /\ Cardinality({k \in 1..Len(ret.tokens) : ret.tokens[k] = <<" ">>}) = 2

\* C21 as amended: the line is tokenized into the string token "hello", one
\* space and the comment token // note 42, which runs to the end of the line;
\* the string and the comment are wrapped with different colour markers, the
\* space between them is emitted unchanged, and 42 is part of the comment.
C21_ExampleLineStringAndComment ==
    HighlightedExample =>
        /\ ret.tokens = <<SubSeq(ExampleLine, 1, 7), <<" ">>, SubSeq(ExampleLine, 9, 18)>>
        /\ ret.out = Wrapped("[#FFFF00]", SubSeq(ExampleLine, 1, 7)) \o <<" ">> \o Wrapped("[#00FF00]", SubSeq(ExampleLine, 9, 18))

C21_Witness == HighlightedExample /\ Len(ret.tokens) = 3

(***************************************************************************)
(* Part VII (specification FormatSpec): HTMLParser.FormatLines of          *)
(* pkg/parser/html_parser.go computed on characters.  p.text is a sequence *)
(* of lines, a line the sequence of its characters; the maps headIDs,      *)
(* indeIDs, bullIDs, prefIDs and codeIDs are the sets of the line indices  *)
(* (from 0) they hold.  Go's len(s) counts bytes: a character outside      *)
(* ASCII takes more than one.                                              *)
(***************************************************************************)
MaxLineLen == 3   \* characters of the first line of p.text
MaxLines == 2     \* lines of p.text

\* the number of bytes of the UTF-8 encoding of a character; "eacute" is U+00E9
Bytes(c) == IF c = "eacute" THEN 2 ELSE 1

\* len(s)
RECURSIVE ByteLen(_)
ByteLen(s) == IF s = <<>> THEN 0 ELSE Bytes(Head(s)) + ByteLen(Tail(s))

\* strings.Repeat
Repeat(c, n) == [k \in 1..n |-> c]

WhiteSpace == {" ", "\n"}

\* strings.Fields
RECURSIVE Fields(_)
Fields(s) ==
    IF s = <<>> THEN <<>>
    ELSE IF Head(s) \in WhiteSpace THEN Fields(Tail(s))
    ELSE LET n == RunLen(s, 1, {s[k] : k \in 1..Len(s)} \ WhiteSpace)
         IN  <<SubSeq(s, 1, n)>> \o Fields(SubSeq(s, n + 1, Len(s)))

\* strings.Split(s, "\n")
RECURSIVE SplitLines(_)
SplitLines(s) ==
    IF \E k \in 1..Len(s) : s[k] = "\n"
    THEN LET n == RunLen(s, 1, {s[k] : k \in 1..Len(s)} \ {"\n"})
         IN  <<SubSeq(s, 1, n)>> \o SplitLines(SubSeq(s, n + 2, Len(s)))
    ELSE <<s>>

\* strings.Join(lines, "\n")
RECURSIVE JoinLines(_)
JoinLines(lines) ==
    IF lines = <<>> THEN <<>>
    ELSE IF Len(lines) = 1 THEN lines[1]
    ELSE lines[1] \o <<"\n">> \o JoinLines(Tail(lines))

\* a packer that takes a word only when a character of room is left over
Fits_Strict(currentLine, word, width) == ByteLen(currentLine) + ByteLen(word) + 1 < width

\* "len(currentLine)+len(word)+1 <= width"
Fits(currentLine, word, width) == ByteLen(currentLine) + ByteLen(word) + 1 <= width

\* words joined by single spaces
RECURSIVE JoinWords(_)
JoinWords(words) ==
    IF words = <<>> THEN <<>>
    ELSE IF Len(words) = 1 THEN words[1]
    ELSE words[1] \o <<" ">> \o JoinWords(Tail(words))

\* the loop over the words of formatWrappedLine, formatIndentedLine and
\* formatPreformattedLine, and the flush after it
RECURSIVE PackWords(_, _, _, _)
PackWords(words, currentLine, result, width) ==
    IF words = <<>> THEN (IF currentLine # <<>> THEN Append(result, currentLine) ELSE result)
    ELSE IF Fits(currentLine, Head(words), width)
    THEN PackWords(Tail(words), IF currentLine = <<>> THEN Head(words) ELSE currentLine \o <<" ">> \o Head(words), result, width)
    ELSE PackWords(Tail(words), Head(words), Append(result, currentLine), width)

\* formatWrappedLine
formatWrappedLine(line, width) == IF line = <<>> THEN <<<<>>>> ELSE PackWords(Fields(line), <<>>, <<>>, width)

Indented(lines, indent) == [k \in 1..Len(lines) |-> indent \o lines[k]]

\* formatIndentedLine
formatIndentedLine(line, width, indent) ==
    IF line = <<>> THEN <<>> ELSE JoinLines(Indented(PackWords(Fields(line), <<>>, <<>>, width), indent))

\* the loop over the words of formatBulletLine from the second word on
RECURSIVE PackBullet(_, _, _, _)
PackBullet(words, currentLine, result, width) ==
    IF words = <<>> THEN (IF currentLine # <<>> THEN Append(result, currentLine) ELSE result)
    ELSE IF Fits(currentLine, Head(words), width)
    THEN PackBullet(Tail(words), currentLine \o <<" ">> \o Head(words), result, width)
    ELSE PackBullet(Tail(words), Repeat(" ", 3) \o Head(words), Append(result, currentLine), width)

\* formatBulletLine
formatBulletLine(line, width) ==
    IF line = <<>> \/ Fields(line) = <<>> THEN <<>>
    ELSE JoinLines(PackBullet(Tail(Fields(line)), <<" ", "-", " ">> \o Head(Fields(line)), <<>>, width))

\* formatPreformattedLine
formatPreformattedLine(line, width, indent) ==
    IF line = <<>> THEN <<>>
    ELSE JoinLines(Concat([k \in 1..Len(SplitLines(line)) |-> Indented(PackWords(Fields(SplitLines(line)[k]), <<>>, <<>>, width), indent)]))

\* formatCodeLine
formatCodeLine(line, width, indent) ==
    IF line = <<>> THEN <<>> ELSE JoinLines(Indented(SplitLines(highlightUniversal(line).out), indent))

\* "padding := (width / 2) - (len(line) / 2); if padding < 0 { padding = 0 }"
HeadingPadding(line, width) ==
    IF (width \div 2) - (ByteLen(line) \div 2) < 0 THEN 0 ELSE (width \div 2) - (ByteLen(line) \div 2)

\* the body of the loop of FormatLines: what line i (from 0) adds
FormatBlock(p, i, width) ==
    LET line == p.text[i + 1]
    IN  IF i \in p.headIDs THEN <<Repeat(" ", HeadingPadding(line, width)) \o line, <<>>>>
        ELSE IF i \in p.indeIDs THEN <<formatIndentedLine(line, width - 3, Repeat(" ", 3)), <<>>>>
        ELSE IF i \in p.bullIDs THEN <<formatBulletLine(line, width - 3), <<>>>>
        ELSE IF i \in p.prefIDs
        THEN (IF i \in p.codeIDs
              THEN <<formatCodeLine(line, width - 6, Repeat(" ", 3)), <<>>>>
              ELSE <<formatPreformattedLine(line, width - 6, Repeat(" ", 3)), <<>>>>)
        ELSE Append(formatWrappedLine(line, width), <<>>)

\* HTMLParser.FormatLines
formatLines(p, width) ==
    IF width <= 0 THEN p.text
    ELSE Concat([k \in 1..Len(p.text) |-> FormatBlock(p, k - 1, width)])

\* a parser whose lines have the given roles
Roles == {"plain", "head", "inde", "bull", "pref", "code"}

ParserOf(text, roles) ==
    [text |-> text,
     headIDs |-> {i \in 0..(Len(text) - 1) : roles[i + 1] = "head"},
     indeIDs |-> {i \in 0..(Len(text) - 1) : roles[i + 1] = "inde"},
     bullIDs |-> {i \in 0..(Len(text) - 1) : roles[i + 1] = "bull"},
     prefIDs |-> {i \in 0..(Len(text) - 1) : roles[i + 1] \in {"pref", "code"}},
     codeIDs |-> {i \in 0..(Len(text) - 1) : roles[i + 1] = "code"}]

LineAlphabet == {"n", " ", "eacute"}

ChapterOne == <<"C", "h", "a", "p", "t", "e", "r", " ", "O", "n", "e">>

\* a first line of up to MaxLineLen characters, then up to MaxLines - 1 short lines
Texts == {<<first>> \o rest : first \in SeqsUpTo(LineAlphabet, MaxLineLen), rest \in SeqsUpTo({<<>>, <<"n">>}, MaxLines - 1)}

Widths == {0, 2, 5, 8}

FormatCalls ==
    {[p |-> ParserOf(x[1], x[2]), width |-> x[3], pass |-> 0] :
        x \in {y \in Texts \X SeqsUpTo(Roles, MaxLines) \X Widths : Len(y[1]) = Len(y[2])}}
    \cup {[p |-> ParserOf(<<ChapterOne>>, <<"head">>), width |-> 20, pass |-> 0]}

FormatInit == LoaderAbsent /\ ReaderAbsent /\ call \in FormatCalls /\ ret = Nil

\* lines := htmlParser.FormatLines(width)
CallFormatLines ==
    /\ ret = Nil
    /\ ret' = [lines |-> formatLines(call.p, call.width)]
    /\ UNCHANGED call
    /\ UNCHANGED loadVars
    /\ UNCHANGED readerVars

\* the lines returned are given to FormatLines again, as plain text
FormatAgain ==
    /\ ret # Nil /\ call.pass = 0
    /\ call' = [p |-> ParserOf(ret.lines, [k \in 1..Len(ret.lines) |-> "plain"]), width |-> call.width, pass |-> 1]
    /\ ret' = Nil
    /\ UNCHANGED loadVars
    /\ UNCHANGED readerVars

FormatNext == CallFormatLines \/ FormatAgain

FormatSpec == FormatInit /\ [][FormatNext]_vars

\* the lines given to the second application are each shorter than the width
Reformatted == call.pass = 1 /\ ret # Nil

AllShorter(text, width) == \A k \in 1..Len(text) : ByteLen(text[k]) < width

\* C22: formatLines is idempotent for text already narrower than width:
\* applied at width w to lines that are themselves the output of formatLines
\* at width w, each shorter than w, it returns exactly the same lines.
C22_FormatLinesIdempotent ==
    (Reformatted /\ AllShorter(call.p.text, call.width)) => ret.lines = call.p.text

\* no leading, trailing or repeated white space: what wrapping plain text gives
Packed(line) == line = JoinWords(Fields(line))

\* C22 as amended: applied at width w to lines that are the output of
\* formatLines at width w, each shorter than w bytes and free of leading,
\* trailing and repeated white space (as the wrapping of plain text leaves
\* them), formatLines returns every line unchanged and in order, each
\* followed by one more empty line.
C22_FormatLinesKeepsShortLines ==
    (Reformatted /\ AllShorter(call.p.text, call.width) /\ \A k \in 1..Len(call.p.text) : Packed(call.p.text[k])) =>
        /\ Len(ret.lines) = 2 * Len(call.p.text)
        /\ \A k \in 1..Len(call.p.text) : ret.lines[2 * k - 1] = call.p.text[k] /\ ret.lines[2 * k] = <<>>

C22_Witness ==
    /\ Reformatted /\ AllShorter(call.p.text, call.width)
    /\ \A k \in 1..Len(call.p.text) : Packed(call.p.text[k])
    /\ \E k \in 1..Len(call.p.text) : Len(Fields(call.p.text[k])) = 2

\* the number of lines that the lines before line i (from 0) add
BlockOffset(p, i, width) == Len(Concat([k \in 1..i |-> FormatBlock(p, k - 1, width)]))

\* the number of spaces a line begins with
LeadingSpaces(line) == RunLen(line, 1, {" "})

\* C23: a heading line of textLength characters formatted at width w > 0 is
\* left-padded with exactly max(0, w/2 - textLength/2) spaces (integer
\* division), for any heading text; "Chapter One" (11 characters) at width 20
\* gets 5 spaces.
C23_HeadingPadding ==
    (call.pass = 0 /\ ret # Nil /\ call.width > 0) =>
        \A i \in call.p.headIDs :
            LET line == call.p.text[i + 1]
                want == IF (call.width \div 2) - (Len(line) \div 2) < 0 THEN 0 ELSE (call.width \div 2) - (Len(line) \div 2)
            IN  ret.lines[BlockOffset(call.p, i, call.width) + 1] = Repeat(" ", want) \o line


(***************************************************************************)
(* Part VIII (specification PathSpec): ResolvePath of pkg/utils/path.go    *)
(* (and its copy in pkg/epub/epub.go) applied to bounded paths.  A path    *)
(* is a sequence of tokens: "/" separates segments, "#" starts a           *)
(* fragment, ".." and "." are the parent and the current directory.        *)
(***************************************************************************)
MaxRelLen == 4     \* tokens of the relative path given to ResolvePath

\* strings.Split(path, "/"): the segments of a path, empty ones included
RECURSIVE SplitSegments(_)
SplitSegments(path) ==
    IF Index(path, "/") = 0 THEN <<path>>
    ELSE <<SubSeq(path, 1, Index(path, "/") - 1)>> \o SplitSegments(SubSeq(path, Index(path, "/") + 1, Len(path)))

\* strings.Join(segments, "/")
RECURSIVE JoinSegments(_)
JoinSegments(segments) ==
    IF segments = <<>> THEN <<>>
    ELSE IF Len(segments) = 1 THEN segments[1]
    ELSE segments[1] \o <<"/">> \o JoinSegments(Tail(segments))

\* the loop of filepath.Clean: out is the cleaned prefix, dotdot the number
\* of leading ".." segments of out that cannot be backed over
RECURSIVE CleanLoop(_, _, _, _)
CleanLoop(segments, out, dotdot, rooted) ==
    IF segments = <<>> THEN out
    ELSE LET s == Head(segments)
             rest == Tail(segments)
         IN  IF s = <<>> \/ s = <<".">> THEN CleanLoop(rest, out, dotdot, rooted)
             ELSE IF s = <<"..">>
                  THEN IF Len(out) > dotdot THEN CleanLoop(rest, SubSeq(out, 1, Len(out) - 1), dotdot, rooted)
                       ELSE IF ~rooted THEN CleanLoop(rest, Append(out, s), Len(out) + 1, rooted)
                       ELSE CleanLoop(rest, out, dotdot, rooted)
                  ELSE CleanLoop(rest, Append(out, s), dotdot, rooted)

\* filepath.Clean
Clean(path) ==
    IF path = <<>> THEN <<".">>
    ELSE LET rooted == path[1] = "/"
             out == CleanLoop(SplitSegments(path), <<>>, 0, rooted)
         IN  IF rooted THEN <<"/">> \o JoinSegments(out)
             ELSE IF out = <<>> THEN <<".">>
             ELSE JoinSegments(out)

\* filepath.Dir: all but the last element of the path, cleaned
FilepathDir(path) == Clean(SubSeq(path, 1, LastIndex(path, "/")))

\* filepath.Join of two elements: empty elements are ignored
Join(a, b) ==
    IF a = <<>> /\ b = <<>> THEN <<>>
    ELSE IF a = <<>> THEN Clean(b)
    ELSE IF b = <<>> THEN Clean(a)
    ELSE Clean(a \o <<"/">> \o b)

ResolvePath_FragmentDropped(basePath, relativePath) ==
    LET baseDir == FilepathDir(basePath)
        idx == LastIndex(relativePath, "#")
        fragment == <<>>
        rel == IF idx # 0 THEN SubSeq(relativePath, 1, idx - 1) ELSE relativePath
    IN  IF baseDir = <<".">> THEN relativePath
        ELSE Join(baseDir, rel) \o fragment

\* ResolvePath
ResolvePath(basePath, relativePath) ==
    LET baseDir == FilepathDir(basePath)
        idx == LastIndex(relativePath, "#")
        fragment == IF idx # 0 THEN SubSeq(relativePath, idx, Len(relativePath)) ELSE <<>>
        rel == IF idx # 0 THEN SubSeq(relativePath, 1, idx - 1) ELSE relativePath
    IN  IF baseDir = <<".">> THEN relativePath
        ELSE Join(baseDir, rel) \o fragment

\* the base paths of TestResolvePath and a rooted one
BasePaths == {<<"file.html">>, <<"dir", "/", "file.html">>, <<"dir", "/", "subdir", "/", "file.html">>, <<"/", "file.html">>}

RelTokens == {"image.jpg", "..", ".", "/", "#", "section"}

\* every relative path of at most MaxRelLen tokens, and the longer
\* relative paths of TestResolvePath
RelPaths ==
    SeqsUpTo(RelTokens, MaxRelLen)
        \cup {<<"..", "/", "image.jpg", "#", "section">>, <<"..", "/", "..", "/", "image.jpg">>}

PathInit ==
    /\ LoaderAbsent /\ ReaderAbsent
    /\ call \in [fn : {"ResolvePath"}, basePath : BasePaths, relativePath : RelPaths]
    /\ ret = Nil

CallResolvePath ==
    /\ call # Nil /\ call.fn = "ResolvePath" /\ ret = Nil
    /\ ret' = [path |-> ResolvePath(call.basePath, call.relativePath)]
    /\ UNCHANGED <<loadVars, readerVars, call>>

PathNext == CallResolvePath

PathSpec == PathInit /\ [][PathNext]_vars

\* base has a directory part: a "/" after its first token, or a rooted file
DirectoryPart(basePath) == SubSeq(basePath, 1, LastIndex(basePath, "/"))

\* one rewriting step on a list of segments: the leftmost "." or empty
\* segment is dropped, or the leftmost name followed by ".." is dropped
\* together with that ".."
Redex(segments, i) ==
    \/ segments[i] \in {<<>>, <<".">>}
    \/ i < Len(segments) /\ segments[i] # <<"..">> /\ segments[i + 1] = <<"..">>

Without(segments, i, n) == SubSeq(segments, 1, i - 1) \o SubSeq(segments, i + n, Len(segments))

RECURSIVE Normalised(_)
Normalised(segments) ==
    IF \E i \in 1..Len(segments) : Redex(segments, i)
    THEN LET i == CHOOSE k \in 1..Len(segments) : Redex(segments, k) /\ \A j \in 1..(k - 1) : ~Redex(segments, j)
         IN  Normalised(Without(segments, i, IF segments[i] \in {<<>>, <<".">>} THEN 1 ELSE 2))
    ELSE segments

\* rel without its fragment, and the fragment with its "#"
PathOf(rel) == IF LastIndex(rel, "#") = 0 THEN rel ELSE SubSeq(rel, 1, LastIndex(rel, "#") - 1)
FragmentOf(rel) == IF LastIndex(rel, "#") = 0 THEN <<>> ELSE SubSeq(rel, LastIndex(rel, "#"), Len(rel))

\* the segments of rel appended to those of the directory of base, ".."
\* taken at the root staying at the root
ResolvedSegments(basePath, rel) ==
    LET all == Normalised(SplitSegments(DirectoryPart(basePath) \o PathOf(rel)))
    IN  IF basePath[1] = "/" THEN SelectSeq(all, LAMBDA s : s # <<"..">>) ELSE all

Resolved == ret # Nil /\ call.fn = "ResolvePath"

\* C26: ResolvePath(base, rel) is rel resolved against the directory of
\* base: the segments of the directory followed by those of rel, with "."
\* and empty segments dropped and every ".." cancelled against the segment
\* before it (a ".." with nothing left to cancel stays in front), and the
\* "#fragment" suffix of rel unchanged at the end (the top directory,
\* reached when every segment is cancelled, is written "."); when base
\* has no directory part the result is rel itself.
C26_ResolvePathResolvesAgainstBaseDir ==
    Resolved =>
        IF DirectoryPart(call.basePath) = <<>> THEN ret.path = call.relativePath
        ELSE LET segments == ResolvedSegments(call.basePath, call.relativePath)
                 root == IF call.basePath[1] = "/" THEN <<"/">> ELSE IF segments = <<>> THEN <<".">> ELSE <<>>
             IN  /\ ret.path = root \o JoinSegments(segments) \o FragmentOf(call.relativePath)
                 /\ \A i \in 1..Len(segments) : segments[i] = <<"..">> => \A j \in 1..i : segments[j] = <<"..">>

\* C26 witness: the case of TestResolvePath with a parent directory and a
\* fragment, "dir/subdir/file.html" and "../image.jpg#section"
C26_Witness ==
    /\ Resolved
    /\ call.basePath = <<"dir", "/", "subdir", "/", "file.html">>
    /\ call.relativePath = <<"..", "/", "image.jpg", "#", "section">>
    /\ ret.path = <<"dir", "/", "image.jpg", "#", "section">>

(***************************************************************************)
(* Relative references followed by the loader (Part I)                     *)
(***************************************************************************)
\* the archive entry generateTOC opens for the TOC document
TOCEntry == StripDotSlash(e.TOCPath)

ChapterOpened == ret # Nil /\ call.fn = "GetChapterContents" /\ ret.err = ""

\* C25: every relative reference the loader follows is resolved against
\* the directory of the package document (the first rootfile of
\* container.xml) before the archive entry is opened: the href of the TOC
\* document taken from the manifest, and each chapter path taken from the
\* TOC document.
C25_ReferencesResolvedAgainstPackageDir ==
    /\ (Returned /\ e.TOCPath # <<>>) =>
           \E i \in 1..Len(pkg.Manifest) : TOCEntry = ResolvePath(e.RootFile, pkg.Manifest[i].Href)
    /\ ChapterOpened => ret.entry = ResolvePath(e.RootFile, e.TOC.Slice[call.index + 1].Path)

(***************************************************************************)
(* Hidden text and line roles (Part IV)                                    *)
(***************************************************************************)
\* the text node visited next lies inside a script, style or head element
InsideHidden == \E k \in 1..Len(OpenElements(call.content, call.pos)) : OpenElements(call.content, call.pos)[k] \in HiddenTags

\* C29: no text node located inside a script, style or head element, at
\* any depth, is added to the rendered lines, also when it follows a nested
\* script or style element inside head.
C29_HiddenTextNeverRendered == [][(handleText /\ InsideHidden) => ret'.text = ret.text]_vars

\* the branch the loop of FormatLines takes for line i (from 0)
FormatRole(p, i) ==
    IF i \in p.headIDs THEN "head"
    ELSE IF i \in p.indeIDs THEN "inde"
    ELSE IF i \in p.bullIDs THEN "bull"
    ELSE IF i \in p.prefIDs THEN "pref"
    ELSE "plain"

\* the marks handleText has put on line i
Marks(p, i) ==
    (IF i \in p.headIDs THEN {"head"} ELSE {}) \cup (IF i \in p.bullIDs THEN {"bull"} ELSE {})
        \cup (IF i \in p.indeIDs THEN {"inde"} ELSE {}) \cup (IF i \in p.prefIDs THEN {"pref"} ELSE {})

\* the first of heading, bullet, indented, preformatted among the marks
HighestMark(marks) ==
    IF "head" \in marks THEN "head"
    ELSE IF "bull" \in marks THEN "bull"
    ELSE IF "inde" \in marks THEN "inde"
    ELSE IF "pref" \in marks THEN "pref"
    ELSE "plain"

\* C30: every rendered line that received text carries exactly one role,
\* the highest-precedence context (heading > bullet > indented >
\* preformatted, else plain) that was active while text was appended to it,
\* and the formatter treats the line according to that role.
C30_OneRolePerLine ==
    \A i \in 0..(Len(ret.text) - 1) :
        ret.text[i + 1] # <<>> =>
            /\ Cardinality(Marks(ret, i)) <= 1
            /\ FormatRole(ret, i) = HighestMark(Marks(ret, i))


(***************************************************************************)
(* Part IX (specification KeySpec): the reading view with its navigation,  *)
(* search, scroll and quit keys.  The goroutines and the caches are those  *)
(* of Part II; call holds the arguments of Run (the state main loaded from *)
(* the state file) and ret the state saveState writes when the reader      *)
(* quits.  A percentage is held as a whole number of percent.              *)
(***************************************************************************)
\* key 'p', or key 'N' with no search pattern: prevChapter(r.CurrentChapter, pos, pctg)
PrevChapterKey ==
    /\ ~crashed /\ fg.pc = "idle"
    /\ Reserved(tasks) <= MaxBusy
    /\ LET v == getCurrentVirtualChapter(r.StatusBar, book.VirtualTOCEntries)
           index == r.CurrentChapter
       IN  IF v >= 0
           THEN IF v > 0
                THEN CallReadVirtual(r, tasks, "prevChapter", index, v - 1)
                ELSE IF index > 0
                THEN CallReadChapter(r, tasks, "prevChapter", index, -1, index - 1)
                ELSE PrevChapterTail([r EXCEPT !.StatusBar = FirstChapterStatus], tasks)
           ELSE IF index > 0
                THEN CallReadChapter(r, tasks, "prevChapter", index, -1, index - 1)
                ELSE IF Len(book.VirtualContents) > 0 /\ index = Len(book.Contents) - 1
                THEN CallReadVirtual(r, tasks, "prevChapterLast", index, Len(book.VirtualContents) - 1)
                ELSE PrevChapterTail([r EXCEPT !.StatusBar = FirstChapterStatus], tasks)
    /\ UNCHANGED <<book, reading, crashed>>
    /\ UNCHANGED loadVars
    /\ UNCHANGED fnVars

\* the patterns typed into the search box
SearchPatterns == {<<"a">>, <<"zz">>}

\* key '/': search(), when the search box is closed with a pattern
SearchKey ==
    /\ ~crashed /\ fg.pc = "idle"
    /\ Reserved(tasks) <= MaxBusy
    /\ \E pattern \in SearchPatterns :
         LET foundIndex == FirstMatch(pattern, r.Text, 0, LineCount(r.Text) - 1)
         IN  r' = IF foundIndex >= 0
                  THEN [r EXCEPT !.SearchPattern = pattern, !.Row = foundIndex, !.StatusBar = FoundStatus(FALSE)]
                  ELSE [r EXCEPT !.SearchPattern = pattern, !.StatusBar = NotFoundStatus(pattern)]
    /\ UNCHANGED <<book, fg, tasks, reading, crashed>>
    /\ UNCHANGED loadVars
    /\ UNCHANGED fnVars

\* key 'n' with a search pattern: searchNext()
SearchNextKey ==
    /\ ~crashed /\ fg.pc = "idle" /\ r.SearchPattern # <<>>
    /\ Reserved(tasks) <= MaxBusy
    /\ LET pos == r.Row
           after == FirstMatch(r.SearchPattern, r.Text, pos + 1, LineCount(r.Text) - 1)
           foundIndex == IF after >= 0 THEN after ELSE FirstMatch(r.SearchPattern, r.Text, 0, pos)
       IN  r' = IF foundIndex >= 0
                THEN [r EXCEPT !.Row = foundIndex, !.StatusBar = FoundStatus(foundIndex <= pos)]
                ELSE [r EXCEPT !.StatusBar = NotFoundStatus(r.SearchPattern)]
    /\ UNCHANGED <<book, fg, tasks, reading, crashed>>
    /\ UNCHANGED loadVars
    /\ UNCHANGED fnVars

\* key 'N' with a search pattern: searchPrev()
SearchPrevKey ==
    /\ ~crashed /\ fg.pc = "idle" /\ r.SearchPattern # <<>>
    /\ Reserved(tasks) <= MaxBusy
    /\ LET pos == r.Row
           before == LastMatch(r.SearchPattern, r.Text, 0, pos - 1)
           foundIndex == IF before >= 0 THEN before ELSE LastMatch(r.SearchPattern, r.Text, pos, LineCount(r.Text) - 1)
       IN  r' = IF foundIndex >= 0
                THEN [r EXCEPT !.Row = foundIndex, !.StatusBar = FoundStatus(foundIndex >= pos)]
                ELSE [r EXCEPT !.StatusBar = NotFoundStatus(r.SearchPattern)]
    /\ UNCHANGED <<book, fg, tasks, reading, crashed>>
    /\ UNCHANGED loadVars
    /\ UNCHANGED fnVars

\* key 'j' or Down: scrollDown()
ScrollDownKey ==
    /\ ~crashed /\ fg.pc = "idle"
    /\ Reserved(tasks) <= MaxBusy
    /\ r.Row < MaxRow
    /\ r' = [r EXCEPT !.Row = @ + 1]
    /\ UNCHANGED <<book, fg, tasks, reading, crashed>>
    /\ UNCHANGED loadVars
    /\ UNCHANGED fnVars

\* key 'k' or Up: scrollUp()
ScrollUpKey ==
    /\ ~crashed /\ fg.pc = "idle"
    /\ Reserved(tasks) <= MaxBusy
    /\ r' = IF r.Row > 0 THEN [r EXCEPT !.Row = @ - 1] ELSE r
    /\ UNCHANGED <<book, fg, tasks, reading, crashed>>
    /\ UNCHANGED loadVars
    /\ UNCHANGED fnVars

\* saveState(r.CurrentChapter, r.UI.Width, pos, pctg, inVirtualChapter, virtualIndex)
\* with the pos and pctg Run was called with
SavedState ==
    [Index |-> r.CurrentChapter, Width |-> r.Width, Pos |-> call.pos, Pctg |-> call.pctg,
     InVirtualChapter |-> getCurrentVirtualChapter(r.StatusBar, book.VirtualTOCEntries) >= 0,
     VirtualIndex |-> getCurrentVirtualChapter(r.StatusBar, book.VirtualTOCEntries)]

\* saveState and App.Stop: Run returns and the process exits, which ends
\* the background goroutines
Quit ==
    /\ ret' = SavedState
    /\ fg' = [IdleFg EXCEPT !.pc = "stopped"]
    /\ tasks' = [t \in TaskIds |-> FreeTask]
    /\ reading' = {}
    /\ UNCHANGED <<r, book, crashed, call>>

\* key 'q'
QuitKey ==
    /\ ~crashed /\ fg.pc = "idle"
    /\ Reserved(tasks) <= MaxBusy
    /\ Quit
    /\ UNCHANGED loadVars

\* key Escape or Ctrl-C: an active search is cleared, else the reader quits
EscapeKey ==
    /\ ~crashed /\ fg.pc = "idle"
    /\ Reserved(tasks) <= MaxBusy
    /\ IF r.SearchPattern # <<>>
       THEN /\ r' = [r EXCEPT !.SearchPattern = <<>>, !.StatusBar = SearchClearedStatus]
            /\ UNCHANGED <<book, fg, tasks, reading, crashed>>
            /\ UNCHANGED fnVars
       ELSE Quit
    /\ UNCHANGED loadVars

\* Run(state.Index, state.Width, state.Pos, state.Pctg) as main calls it
RunState ==
    /\ ~crashed /\ fg.pc = "start"
    /\ RunWith(call.index, call.sv, call.pctg)
    /\ UNCHANGED <<book, reading, crashed>>
    /\ UNCHANGED loadVars
    /\ UNCHANGED fnVars

\* the saved percentages: the beginning and the middle of a chapter
Pctgs == {0, 50}

\* the row readChapter scrolls to for a saved percentage
ResumeRow(pctg) == ((MaxRow + 1) * pctg) \div 100

\* the states main may load: none (a first opening) or one saved earlier
RunCalls ==
    {[fn |-> "Run", index |-> i, sv |-> -1, pos |-> ResumeRow(p), pctg |-> p] : i \in 0..1, p \in Pctgs}

KeyBooks == {MakeBook(0, {}, "anchored", VirtualPool), MakeBook(1, {}, "anchored", VirtualPool), MakeBook(1, {}, "anchored", VirtualPoolLate)}

KeyInit ==
    /\ LoaderDone
    /\ book \in KeyBooks
    /\ r = NewReaderValue
    /\ fg = [IdleFg EXCEPT !.pc = "start"]
    /\ tasks = [t \in TaskIds |-> FreeTask]
    /\ reading = {}
    /\ crashed = FALSE
    /\ call \in RunCalls
    /\ ret = Nil

KeyNext ==
    \/ RunState
    \/ NextChapterKey \/ PrevChapterKey
    \/ SearchKey \/ SearchNextKey \/ SearchPrevKey
    \/ ScrollDownKey \/ ScrollUpKey
    \/ QuitKey \/ EscapeKey
    \/ RcHTMLRead \/ RcOpen \/ RcReadAll \/ RcHTMLWrite
    \/ RcParsedRead \/ RcParsedWrite \/ RcFmtRead \/ RcFmtWrite
    \/ RvOpen \/ RvReadAll
    \/ ClearCacheKey \/ CcParsed \/ CcFmt
    \/ \E t \in TaskIds : PlHTMLRead(t) \/ PlOpen(t) \/ PlReadAll(t) \/ PlHTMLWrite(t)
    \/ \E t \in TaskIds : IpParsedWrite(t) \/ IpWidthKey(t) \/ IpFormat(t) \/ IpFmtWrite(t)
    \/ \E t \in TaskIds : SpHTMLRead(t) \/ SpOpen(t) \/ SpReadAll(t) \/ SpHTMLWrite(t)
    \/ FatalMapAccess

KeySpec == KeyInit /\ [][KeyNext]_vars

\* the positions of readChapter
RcPcs == {"rcHTMLRead", "rcOpen", "rcReadAll", "rcHTMLWrite", "rcParsedRead", "rcParsedWrite", "rcFmtRead", "rcFmtWrite"}

\* the positions readChapter reaches only after a miss: the archive read,
\* the parse (done on the way to rcParsedWrite) and the format (done on the
\* way to rcFmtWrite)
MissPcs == {"rcOpen", "rcReadAll", "rcHTMLWrite", "rcParsedWrite", "rcFmtWrite"}

\* readChapter is at work on a chapter and width for which a request has
\* completed since the caches were last cleared
SecondRequest == fg.pc \in RcPcs /\ Has(r.Displayed, fg.widthKey)

InRegularChapter == getCurrentVirtualChapter(r.StatusBar, book.VirtualTOCEntries) < 0

\* the handlers of the keys 'n' and 'N'
PressN == NextChapterKey \/ SearchNextKey

PressShiftN == (PrevChapterKey /\ r.SearchPattern = <<>>) \/ SearchPrevKey

\* C27: in the reading view, pressing n moves to the next chapter and
\* pressing N moves to the previous chapter (stated for a regular chapter
\* that has a next, respectively a previous, regular chapter).
C27_KeysMoveBetweenChapters ==
    [][/\ (PressN /\ InRegularChapter /\ r.CurrentChapter < Len(book.Contents) - 1) => r'.CurrentChapter = r.CurrentChapter + 1
       /\ (PressShiftN /\ InRegularChapter /\ r.CurrentChapter > 0) => r'.CurrentChapter = r.CurrentChapter - 1]_vars

\* the reader has quit and saved its state
Stopped == fg.pc = "stopped"

\* C28: when the reader quits, the saved state holds the chapter index, the
\* scroll row and the scroll percentage that were current at the moment of
\* quitting, so that reopening the file resumes at that position.
C28_SavedStateIsCurrentPosition ==
    Stopped => /\ ret.Index = r.CurrentChapter
               /\ ret.Pos = r.Row
               /\ ResumeRow(ret.Pctg) = r.Row


(***************************************************************************)
(* Leaving an indented, preformatted or bullet element (Part IV)           *)
(***************************************************************************)
\* the parser after the first n visits of the walk
RECURSIVE ParserAfter(_, _)
ParserAfter(content, n) ==
    IF n = 0 THEN NewHTMLParser
    ELSE LET p == ParserAfter(content, n - 1)
         IN  IF content[n].t = "open" THEN StartTagFlags(p, content[n].tag)
             ELSE IF content[n].t = "close" THEN EndTagFlags(p, content[n].tag)
             ELSE TextFlags(p)

\* the number of characters in the lines
RECURSIVE CharCount(_)
CharCount(text) == IF text = <<>> THEN 0 ELSE Len(Head(text)) + CharCount(Tail(text))

\* the visit of the start tag whose end tag is visit k
OpenVisit(content, k) ==
    CHOOSE i \in 1..(k - 1) :
        /\ content[i].t = "open"
        /\ Len(OpenElements(content, i - 1)) = Len(OpenElements(content, k))
        /\ \A j \in (i + 1)..(k - 1) : content[j].t = "open" => Len(OpenElements(content, j - 1)) # Len(OpenElements(content, k))

\* the element whose end tag is visited next has added text to the lines
ProducedContent ==
    CharCount(ret.text) > CharCount(ParserAfter(call.content, OpenVisit(call.content, call.pos + 1)).text)

\* the context flag of an element of the given kind is cleared
FlagCleared(p, tag) ==
    /\ tag \in IndentTags => ~p.isInde
    /\ tag = "pre" => ~p.isPref
    /\ tag = "li" => ~p.isBull

\* C31: on exiting an indented (q, dt, dd, blockquote), preformatted (pre)
\* or bullet (li) element, a blank line is appended if and only if that
\* element produced non-empty content, and afterwards the context flag of
\* the element is cleared.
C31_BlankLineIffContent ==
    [][(handleEndTag /\ NextNode.tag \in IndentTags \cup {"pre", "li"}) =>
          /\ (Len(ret'.text) = Len(ret.text) + 1) <=> ProducedContent
          /\ Len(ret'.text) \in {Len(ret.text), Len(ret.text) + 1}
          /\ FlagCleared(ret', NextNode.tag)]_vars

(***************************************************************************)
(* Superscripts and subscripts (Part IV)                                   *)
(***************************************************************************)
\* the walk has visited every node
Parsed == call.pos = Len(call.content)

SupElements(content) == {i \in 1..Len(content) : content[i].t = "open" /\ content[i].tag \in {"sup", "sub"}}

\* the positions of a line that hold an opening marker
Markers(line) == {i \in 1..Len(line) : line[i] \in {"^{", "_{"}}

RECURSIVE MarkerCount(_)
MarkerCount(text) == IF text = <<>> THEN 0 ELSE Cardinality(Markers(Head(text))) + MarkerCount(Tail(text))

\* C32: for every sup or sub element the rendered text contains the
\* opening marker, then the text of the element, then the matching "}", in
\* this order and on the same line, also when the element is the last
\* content of its line or of the document.
C32_MarkersClosedOnTheLine ==
    Parsed =>
        /\ MarkerCount(ret.text) = Cardinality(SupElements(call.content))
        /\ \A k \in 1..Len(ret.text) : \A i \in Markers(ret.text[k]) :
               i + 2 <= Len(ret.text[k]) /\ ret.text[k][i + 1] = "x" /\ ret.text[k][i + 2] = "}"

(***************************************************************************)
(* Wrapping of code lines (Part VII)                                       *)
(***************************************************************************)
\* the colour markers colorizeToken writes; the model's characters hold no
\* other bracketed text
ColourMarkers == {"[#FFFF00]", "[#00FF00]", "[#FF8800]", "[#FF00AA]", "[#00FFFF]", "[#FF00FF]", "[#0088FF]", "[-]"}

\* stripColorCodes: the regular expression \[[^]]*\] replaced by nothing
stripColorCodes(text) == SelectSeq(text, LAMBDA c : c \notin ColourMarkers)

Formatted == call.pass = 0 /\ ret # Nil /\ call.width > 0

\* the output lines of the block of line i (from 0), without the indent of
\* three spaces and without the colour markers
VisibleLines(p, i, width) ==
    LET out == SplitLines(FormatBlock(p, i, width)[1])
    IN  [k \in 1..Len(out) |-> stripColorCodes(SubSeq(out[k], 4, Len(out[k])))]

\* C33: code lines are wrapped by the greedy rule of preformatted lines on
\* their visible length (colour markers stripped): no output line of a code
\* block has a visible length above the wrap limit, width - 6, unless it
\* consists of a single word longer than the limit.
C33_CodeLinesWrapped ==
    Formatted =>
        \A i \in call.p.codeIDs :
            LET lines == VisibleLines(call.p, i, call.width)
            IN  \A k \in 1..Len(lines) : ByteLen(lines[k]) <= call.width - 6 \/ Len(Fields(lines[k])) <= 1

(***************************************************************************)
(* The word packer on plain lines (Part VII)                               *)
(***************************************************************************)
\* the lines without a role: FormatLines gives them to formatWrappedLine
PlainIDs(p) == (0..(Len(p.text) - 1)) \ (p.headIDs \cup p.indeIDs \cup p.bullIDs \cup p.prefIDs)

\* what formatWrappedLine returned for line i: the block without the empty
\* line FormatLines appends to it
WrappedLines(p, i, width) == SubSeq(FormatBlock(p, i, width), 1, Len(FormatBlock(p, i, width)) - 1)

\* C34: for every non-empty plain line and every width w > 0 the greedy
\* word packer emits only non-empty lines, each of length at most w unless
\* it consists of a single word longer than w.
C34_PackerEmitsFittingNonEmptyLines ==
    Formatted =>
        \A i \in PlainIDs(call.p) :
            call.p.text[i + 1] # <<>> =>
                LET lines == WrappedLines(call.p, i, call.width)
                IN  \A k \in 1..Len(lines) :
                        /\ lines[k] # <<>>
                        /\ Len(lines[k]) <= call.width \/ (Len(Fields(lines[k])) = 1 /\ Len(lines[k]) > call.width)

(***************************************************************************)
(* The colour of each keyword class (Part VI)                              *)
(***************************************************************************)
\* a token of the data-type table wrapped with the data-type colour, a
\* token of the control-flow table with the control-flow colour, any other
\* token as colorizeToken gives it
ClassColoured(token) ==
    IF isDataType(token) THEN Wrapped("[#00FFFF]", token)
    ELSE IF isControlFlow(token) THEN Wrapped("[#FF00FF]", token)
    ELSE colorizeToken(token)

\* C35: each keyword class keeps its own colour: in the highlighted line
\* every token of the data-type keyword set (int, let) is wrapped with the
\* data-type colour and every token of the control-flow keyword set (if,
\* in, of) with the control-flow colour.
C35_KeywordClassColours ==
    ret # Nil => ret.out = Concat([k \in 1..Len(ret.tokens) |-> ClassColoured(ret.tokens[k])])

(***************************************************************************)
(* Part X (specification ListSpec): a DList of pkg/utils on its own.       *)
(* Every call of Add passes nil or a pointer an earlier call returned;     *)
(* ret holds the list and the pointer the last call returned, call the     *)
(* number of calls made and the pointers returned so far.                  *)
(***************************************************************************)
MaxAdds == 4   \* calls of Add on one list

ListValues == {"a", "b", "c"}

ListInit ==
    /\ LoaderAbsent /\ ReaderAbsent
    /\ call = [adds |-> 0, returned |-> {0}]
    /\ ret = [list |-> NewDList, next |-> 0]

\* next := l.Add(value, prev)
CallAdd ==
    /\ call.adds < MaxAdds
    /\ \E value \in ListValues, prev \in call.returned :
          /\ ret' = [list |-> Add(ret.list, value, prev).list, next |-> Add(ret.list, value, prev).ret]
          /\ call' = [adds |-> call.adds + 1, returned |-> call.returned \cup {Add(ret.list, value, prev).ret}]
    /\ UNCHANGED loadVars
    /\ UNCHANGED readerVars

ListNext == CallAdd

ListSpec == ListInit /\ [][ListNext]_vars

\* the values of the items reached from item i through Next
RECURSIVE ChainFrom(_, _)
ChainFrom(items, i) == IF i = 0 THEN <<>> ELSE <<items[i].Value>> \o ChainFrom(items, items[i].Next)

\* C40: after any sequence of Add calls on a DList, each with nil or an
\* item returned by an earlier call as prev, the chain of items reachable
\* from Head through Next holds exactly the values of Slice in the same
\* order, so that Len() is the number of items of the chain.
C40_ChainHoldsSlice ==
    /\ ChainFrom(ret.list.Items, ret.list.Head) = ret.list.Slice
    /\ DListLen(ret.list) = Len(ChainFrom(ret.list.Items, ret.list.Head))

(***************************************************************************)
(* Part XI (specification WidthSpec): the keys + and - of the reading view *)
(* while the goroutines of preloadContent fill the stores.  The inner      *)
(* goroutine reads r.UI.Width twice without synchronisation; each read     *)
(* gives the value before or after a concurrent SetWidth, which the        *)
(* interleaving of its steps with the key handlers covers.                 *)
(***************************************************************************)
MaxWidthSteps == 1   \* the width stays within InitialWidth +- 5 * MaxWidthSteps

\* UI.SetWidth
SetWidth(rr, width) == IF width > 0 THEN [rr EXCEPT !.Width = width] ELSE rr

\* key '+': increaseWidth
IncreaseWidthKey ==
    /\ ~crashed /\ fg.pc = "idle"
    /\ r.Width + 5 <= InitialWidth + 5 * MaxWidthSteps
    /\ r' = SetWidth(r, r.Width + 5)
    /\ UNCHANGED <<book, fg, tasks, reading, crashed>>
    /\ UNCHANGED loadVars
    /\ UNCHANGED fnVars

\* key '-': decreaseWidth
DecreaseWidthKey ==
    /\ ~crashed /\ fg.pc = "idle"
    /\ r.Width - 5 >= InitialWidth - 5 * MaxWidthSteps
    /\ r' = SetWidth(r, r.Width - 5)
    /\ UNCHANGED <<book, fg, tasks, reading, crashed>>
    /\ UNCHANGED loadVars
    /\ UNCHANGED fnVars

WidthNext ==
    \/ Run
    \/ IncreaseWidthKey \/ DecreaseWidthKey
    \/ RcHTMLRead \/ RcOpen \/ RcReadAll \/ RcHTMLWrite
    \/ RcParsedRead \/ RcParsedWrite \/ RcFmtRead \/ RcFmtWrite
    \/ RvOpen \/ RvReadAll
    \/ \E t \in TaskIds : PlHTMLRead(t) \/ PlOpen(t) \/ PlReadAll(t) \/ PlHTMLWrite(t)
    \/ \E t \in TaskIds : IpParsedWrite(t) \/ IpWidthKey(t) \/ IpFormat(t) \/ IpFmtWrite(t)
    \/ \E t \in TaskIds : SpHTMLRead(t) \/ SpOpen(t) \/ SpReadAll(t) \/ SpHTMLWrite(t)
    \/ FatalMapAccess

WidthSpec == CacheInit /\ [][WidthNext]_vars

\* the widths the display can have
DisplayWidths == {InitialWidth + 5 * k : k \in (0 - MaxWidthSteps)..MaxWidthSteps}

\* C36: every entry of the formatted store filed under the key (file path,
\* width w) holds the lines obtained by formatting that file at width w,
\* also when the foreground changes the display width (+ or -) while a
\* preload task is computing the entry.
C36_FormattedEntryMatchesKey ==
    \A i \in 1..Len(book.Contents) : \A w \in DisplayWidths :
        Has(r.FormattedCache, WidthKey(book.Contents[i], w)) =>
            r.FormattedCache[WidthKey(book.Contents[i], w)] = FormatLines(Parse(FileContent(book.Contents[i])), w)

(***************************************************************************)
(* The range of the chapter index (Part IX)                                *)
(***************************************************************************)
\* C37: after any sequence of next-chapter and previous-chapter commands
\* the current chapter index lies within 0 .. (number of chapters - 1); a
\* next-chapter command issued at the last chapter and a previous-chapter
\* command issued at the first chapter leave the index unchanged.
C37_IndexStaysInRange ==
    [][/\ r'.CurrentChapter \in 0..(Len(book.Contents) - 1)
       /\ (NextChapterKey /\ r.CurrentChapter = Len(book.Contents) - 1) => r'.CurrentChapter = r.CurrentChapter
       /\ (PrevChapterKey /\ r.CurrentChapter = 0) => r'.CurrentChapter = r.CurrentChapter]_vars

(***************************************************************************)
(* Part XII (specification TourSpec): a reader who opens the book and      *)
(* presses 'n' again and again.  The event loop handles every key that is  *)
(* pressed and the Go scheduler runs every goroutine that can run, hence   *)
(* the weak fairness of the steps.                                         *)
(***************************************************************************)
TourBooks == {MakeBook(n, {}, "anchored", pool) : n \in 0..MaxVirtual, pool \in {VirtualPool, VirtualPoolLate}}

TourInit ==
    /\ LoaderDone
    /\ book \in TourBooks
    /\ r = NewReaderValue
    /\ fg = [IdleFg EXCEPT !.pc = "start"]
    /\ tasks = [t \in TaskIds |-> FreeTask]
    /\ reading = {}
    /\ crashed = FALSE
    /\ call \in RunCalls
    /\ ret = Nil

TourNext ==
    \/ RunState
    \/ NextChapterKey
    \/ RcHTMLRead \/ RcOpen \/ RcReadAll \/ RcHTMLWrite
    \/ RcParsedRead \/ RcParsedWrite \/ RcFmtRead \/ RcFmtWrite
    \/ RvOpen \/ RvReadAll
    \/ \E t \in TaskIds : PlHTMLRead(t) \/ PlOpen(t) \/ PlReadAll(t) \/ PlHTMLWrite(t)
    \/ \E t \in TaskIds : IpParsedWrite(t) \/ IpWidthKey(t) \/ IpFormat(t) \/ IpFmtWrite(t)
    \/ \E t \in TaskIds : SpHTMLRead(t) \/ SpOpen(t) \/ SpReadAll(t) \/ SpHTMLWrite(t)

TourSpec == TourInit /\ [][TourNext]_vars /\ WF_vars(TourNext)

\* C38: in a book with regular and virtual chapters, repeated next-chapter
\* commands display every regular and every virtual chapter at most once
\* and reach the status "Already at the last chapter" after finitely many
\* commands: the tour returns to no chapter it has left, so from some
\* command on every further command finds the end and the status stays.
C38_TourReachesTheEnd == <>[](r.StatusBar = LastChapterStatus)

(***************************************************************************)
(* The virtual chapter on display (Part IX)                                *)
(***************************************************************************)
\* the text area holds virtual chapter i (from 0)
DisplaysVirtual(i) == r.Text = VirtualText(i, r.Width)

\* C39: getCurrentVirtualChapter returns (i, true) exactly when the
\* displayed chapter is virtual chapter i, whatever status messages (search
\* result, search cleared, caches cleared, error) were shown since it was
\* displayed, and also when several virtual chapters have the same title.
C39_VirtualChapterRecognised ==
    fg.pc = "idle" =>
        \A i \in 0..(Len(book.VirtualContents) - 1) :
            getCurrentVirtualChapter(r.StatusBar, book.VirtualTOCEntries) = i <=> DisplaysVirtual(i)

====
